---- MODULE Spec2Model ----
(***************************************************************************)
(* Aggregation-and-cache core of the unified streaming aggregator          *)
(* (src/app.py, src/providers/base_provider.py).                           *)
(*                                                                         *)
(* Python dictionaries are functions whose DOMAIN is the set of keys that  *)
(* are present; strings that the code trims, lower-cases or searches are   *)
(* sequences of one-character strings.                                     *)
(***************************************************************************)
EXTENDS Integers, Sequences, FiniteSets, TLC

(***************************************************************************)
(* Bounds of the model.                                                    *)
(***************************************************************************)
\* the clock runs over 0..MaxTime
MaxTime == 1
\* cache_duration (CACHE_DURATION of the deployment), in clock ticks
CacheDuration == 1

(***************************************************************************)
(* Strings.                                                                *)
(***************************************************************************)
Range(s) == {s[i] : i \in 1..Len(s)}

\* str.lower() on the alphabet the model uses
ToLower == [H |-> "h", B |-> "b", O |-> "o", N |-> "n", E |-> "e", W |-> "w",
            S |-> "s", K |-> "k", I |-> "i", D |-> "d", G |-> "g"]

LowerCh(c) == IF c \in DOMAIN ToLower THEN ToLower[c] ELSE c

Lower(s) == [i \in 1..Len(s) |-> LowerCh(s[i])]

\* str.strip(): leading and trailing whitespace removed
RECURSIVE LStrip(_)
LStrip(s) == IF s # <<>> /\ Head(s) = " " THEN LStrip(Tail(s)) ELSE s

RECURSIVE RStrip(_)
RStrip(s) == IF s # <<>> /\ s[Len(s)] = " " THEN RStrip(SubSeq(s, 1, Len(s) - 1)) ELSE s

Strip(s) == RStrip(LStrip(s))

\* the decimal digits
DigitValue == [c \in {"0", "1", "2", "3", "4", "5", "6", "7", "8", "9"} |->
                  CASE c = "0" -> 0 [] c = "1" -> 1 [] c = "2" -> 2 [] c = "3" -> 3
                    [] c = "4" -> 4 [] c = "5" -> 5 [] c = "6" -> 6 [] c = "7" -> 7
                    [] c = "8" -> 8 [] c = "9" -> 9]

IsDigit(c) == c \in DOMAIN DigitValue

\* int(s) succeeds on a str: digits, possibly with whitespace around them
IsIntText(s) == Strip(s) # <<>> /\ \A i \in 1..Len(Strip(s)) : IsDigit(Strip(s)[i])

\* the value of int(s) for such a str
RECURSIVE DigitsToInt(_)
DigitsToInt(s) ==
    IF s = <<>> THEN 0
    ELSE 10 * DigitsToInt(SubSeq(s, 1, Len(s) - 1)) + DigitValue[s[Len(s)]]

\* dict.get(key): the value, or None; `not dict.get(key)` is Falsy
Has(d, k) == k \in DOMAIN d

Get(d, k, default) == IF Has(d, k) THEN d[k] ELSE default

\* `not channel.get(field)` for a string-valued field: absent/None or ''
Falsy(d, k) == ~Has(d, k) \/ d[k] = <<>>

\* dict with one more key (d[k] = v)
Put(d, k, v) == [x \in DOMAIN d \cup {k} |-> IF x = k THEN v ELSE d[x]]

\* dict without the keys of `ks`
Without(d, ks) == [x \in DOMAIN d \ ks |-> d[x]]

EmptyDict == [x \in {} |-> <<>>]

(***************************************************************************)
(* BaseProvider.validate_channel / normalize_channel.                      *)
(***************************************************************************)
RequiredFields == {"id", "name", "stream_url"}

\* True iff every required field is present and non-empty (before trimming)
validate_channel(channel) == \A field \in RequiredFields : ~Falsy(channel, field)

\* the normalized fields before the final "remove empty strings" pass
NormalizedFields(channel) ==
    [id         |-> IF Has(channel, "id") THEN channel.id ELSE <<>>,
     name       |-> IF Has(channel, "name") THEN Strip(channel.name) ELSE <<>>,
     stream_url |-> IF Has(channel, "stream_url") THEN Strip(channel.stream_url) ELSE <<>>,
     group      |-> IF ~Falsy(channel, "group") THEN Strip(channel.group)
                    ELSE <<"G", "e", "n", "e", "r", "a", "l">>,
     language   |-> IF ~Falsy(channel, "language") THEN Strip(channel.language)
                    ELSE <<"e", "n">>]

\* what int(channel['number']) does (lines 116-120).  The value of
\* channel['number'] is an int (key "number"), a str (key "number_text") or
\* the float infinity (key "number_inf"); any other value or no value is None.
IntOutcome(channel) ==
    IF Has(channel, "number") THEN "int"
    ELSE IF Has(channel, "number_text")
         THEN IF IsIntText(channel.number_text) THEN "int" ELSE "ValueError"
    ELSE IF Has(channel, "number_inf") THEN "OverflowError"
    ELSE "None"

IntValue(channel) ==
    IF Has(channel, "number") THEN channel.number
    ELSE DigitsToInt(Strip(channel.number_text))

\* ValueError and TypeError of int() are passed over (line 119); any other
\* exception reaches the outer handler, which returns the raw channel
normalize_channel(channel) ==
    IF IntOutcome(channel) = "OverflowError" THEN channel
    ELSE LET n0 == NormalizedFields(channel)
             n1 == IF IntOutcome(channel) = "int"
                   THEN Put(n0, "number", IntValue(channel)) ELSE n0
             dropped == {k \in DOMAIN n0 \ RequiredFields : n0[k] = <<>>}
         IN  Without(n1, dropped)

\* what every provider's get_channels returns for the raw records it scraped
RECURSIVE ProviderProcess(_)
ProviderProcess(raws) ==
    IF raws = <<>> THEN <<>>
    ELSE LET rest == ProviderProcess(Tail(raws))
         IN  IF validate_channel(Head(raws))
             THEN <<normalize_channel(Head(raws))>> \o rest
             ELSE rest

(***************************************************************************)
(* BaseProvider.validate_programme / normalize_programme.  start and stop  *)
(* are strings of digits in the wire format.                               *)
(***************************************************************************)
RequiredProgrammeFields == {"title", "start", "stop"}

validate_programme(programme) ==
    \A field \in RequiredProgrammeFields : ~Falsy(programme, field)

normalize_programme(programme) ==
    LET n0 == [f \in RequiredProgrammeFields |->
                  IF Has(programme, f) THEN Strip(programme[f]) ELSE <<>>]
        n1 == IF ~Falsy(programme, "description")
              THEN Put(n0, "description", Strip(programme.description)) ELSE n0
        dropped == {k \in DOMAIN n1 \ RequiredProgrammeFields : n1[k] = <<>>}
    IN  Without(n1, dropped)

\* the loop over the scraped programmes of one channel in get_epg_data
RECURSIVE ProgrammeProcess(_)
ProgrammeProcess(raws) ==
    IF raws = <<>> THEN <<>>
    ELSE LET rest == ProgrammeProcess(Tail(raws))
         IN  IF validate_programme(Head(raws))
             THEN <<normalize_programme(Head(raws))>> \o rest
             ELSE rest

(***************************************************************************)
(* utils/m3u_cleaner.py.                                                   *)
(***************************************************************************)
RECURSIVE DropDigits(_)
DropDigits(s) == IF s # <<>> /\ IsDigit(Head(s)) THEN DropDigits(Tail(s)) ELSE s

\* re.sub(r'^\d+\s*', '', s): the pattern is anchored at the first character
SubLeadingNumber(s) ==
    IF s # <<>> /\ IsDigit(Head(s)) THEN LStrip(DropDigits(s)) ELSE s

clean_tvg_name_value(tvg_name_value) ==
    IF tvg_name_value = <<>> THEN <<>>
    ELSE Strip(SubLeadingNumber(tvg_name_value))

(***************************************************************************)
(* Filter rules (CHANNEL_NAME_INCLUDE, CHANNEL_NAME_EXCLUDE, GROUP_INCLUDE,*)
(* GROUP_EXCLUDE).  The patterns of the model are literal words, and "["   *)
(* alone, which re rejects ("unterminated character set").                 *)
(***************************************************************************)
\* re.compile(pattern) succeeds: every "[" is closed by a later "]"
Compiles(pattern) ==
    \A i \in 1..Len(pattern) :
        pattern[i] = "[" => \E j \in (i + 1)..Len(pattern) : pattern[j] = "]"

\* variant: the search without re.IGNORECASE
ReSearchCaseSensitive(pattern, text) ==
    \E i \in 0..(Len(text) - Len(pattern)) :
        \A j \in 1..Len(pattern) : text[i + j] = pattern[j]

\* re.search(pattern, text, re.IGNORECASE) for a literal pattern
ReSearch(pattern, text) ==
    \E i \in 0..(Len(text) - Len(pattern)) :
        \A j \in 1..Len(pattern) : LowerCh(text[i + j]) = LowerCh(pattern[j])

\* variant: the rule is evaluated although its pattern is the empty string
RuleOutcomeNoEmptyCheck(pattern, text, isInclude) ==
    IF ~Compiles(pattern) THEN "raise"
    ELSE IF ReSearch(pattern, text) = isInclude THEN ""
    ELSE "skip"

\* one rule of _apply_filters: "" when the rule lets the channel continue,
\* "skip" when it hits `continue`, "raise" when re.search raises re.error
RuleOutcome(pattern, text, isInclude) ==
    IF pattern = <<>> THEN ""
    ELSE IF ~Compiles(pattern) THEN "raise"
    ELSE IF ReSearch(pattern, text) = isInclude THEN ""
    ELSE "skip"

\* the four rules in the order the loop body evaluates them; the first rule
\* that does not let the channel continue decides
FilterOutcome(rules, channel) ==
    LET name  == Get(channel, "name", <<>>)
        group == Get(channel, "group", <<>>)
        o1 == RuleOutcome(rules.name_include, name, TRUE)
        o2 == RuleOutcome(rules.name_exclude, name, FALSE)
        o3 == RuleOutcome(rules.group_include, group, TRUE)
        o4 == RuleOutcome(rules.group_exclude, group, FALSE)
    IN  IF o1 # "" THEN o1
        ELSE IF o2 # "" THEN o2
        ELSE IF o3 # "" THEN o3
        ELSE o4

\* _apply_filters raises iff the loop reaches a rule that raises
FilterRaises(rules, channels) ==
    \E i \in 1..Len(channels) : FilterOutcome(rules, channels[i]) = "raise"

\* variant: a surviving channel is put at the front of filtered_channels
RECURSIVE _apply_filters_prepend(_, _)
_apply_filters_prepend(rules, channels) ==
    IF channels = <<>> THEN <<>>
    ELSE LET rest == _apply_filters_prepend(rules, Tail(channels))
         IN  IF FilterOutcome(rules, Head(channels)) = ""
             THEN rest \o <<Head(channels)>>
             ELSE rest

RECURSIVE _apply_filters(_, _)
_apply_filters(rules, channels) ==
    IF channels = <<>> THEN <<>>
    ELSE LET rest == _apply_filters(rules, Tail(channels))
         IN  IF FilterOutcome(rules, Head(channels)) = ""
             THEN <<Head(channels)>> \o rest
             ELSE rest

(***************************************************************************)
(* _remove_duplicates.                                                     *)
(***************************************************************************)
\* variant: the name is trimmed but not lower-cased
DedupKeyCaseSensitive(channel) ==
    <<Strip(Get(channel, "name", <<>>)), Get(channel, "stream_url", <<>>)>>

DedupKey(channel) ==
    <<Strip(Lower(Get(channel, "name", <<>>))), Get(channel, "stream_url", <<>>)>>

\* variant: no check that the name and the URL exist
DedupAcceptsUnchecked(seen, key) == key \notin seen

\* variant: only the name is checked
DedupAcceptsNameOnly(seen, key) == key \notin seen /\ key[1] # <<>>

\* `key not in seen and key[0] and key[1]`
DedupAccepts(seen, key) == key \notin seen /\ key[1] # <<>> /\ key[2] # <<>>

RECURSIVE DedupLoop(_, _)
DedupLoop(channels, seen) ==
    IF channels = <<>> THEN <<>>
    ELSE LET key == DedupKey(Head(channels))
         IN  IF DedupAccepts(seen, key)
             THEN <<Head(channels)>> \o DedupLoop(Tail(channels), seen \cup {key})
             ELSE DedupLoop(Tail(channels), seen)

\* the set `seen` when the loop of _remove_duplicates ends
RECURSIVE SeenLoop(_, _)
SeenLoop(channels, seen) ==
    IF channels = <<>> THEN seen
    ELSE LET key == DedupKey(Head(channels))
         IN  IF DedupAccepts(seen, key)
             THEN SeenLoop(Tail(channels), seen \cup {key})
             ELSE SeenLoop(Tail(channels), seen)

_remove_duplicates(channels) == DedupLoop(channels, {})

(***************************************************************************)
(* list.sort(key=lambda x: x.get('channel_number', 999999)): stable.       *)
(***************************************************************************)
SortDefault == 999999

SortKey(channel) == Get(channel, "channel_number", SortDefault)

\* insert x after every element whose key is <= its own (stability)
RECURSIVE InsertSorted(_, _)
InsertSorted(x, sorted) ==
    IF sorted = <<>> THEN <<x>>
    ELSE IF SortKey(Head(sorted)) <= SortKey(x)
         THEN <<Head(sorted)>> \o InsertSorted(x, Tail(sorted))
         ELSE <<x>> \o sorted

RECURSIVE SortChannels(_)
SortChannels(channels) ==
    IF channels = <<>> THEN <<>>
    ELSE InsertSorted(channels[Len(channels)],
                      SortChannels(SubSeq(channels, 1, Len(channels) - 1)))

(***************************************************************************)
(* The per-provider body of the loop in _get_all_channels.                 *)
(***************************************************************************)
\* variant: the counter is used whether or not the provider gave a number
AnnotateCounterOnly(channel, provider_name, channel_number) ==
    Put(Put(channel, "provider", provider_name), "channel_number", channel_number)

\* channel['provider'] = provider_name;
\* channel['channel_number'] = channel.get('number', channel_number)
Annotate(channel, provider_name, channel_number) ==
    Put(Put(channel, "provider", provider_name),
        "channel_number", Get(channel, "number", channel_number))

\* variant: channel_number += 1 is missing
AnnotateAllNoAdvance(provider_channels, provider_name, channel_number) ==
    [i \in 1..Len(provider_channels) |->
        Annotate(provider_channels[i], provider_name, channel_number)]

AnnotateAll(provider_channels, provider_name, channel_number) ==
    [i \in 1..Len(provider_channels) |->
        Annotate(provider_channels[i], provider_name, channel_number + i - 1)]

\* variant: the list is not deduplicated
PostProcessNoDedup(rules, all) == SortChannels(_apply_filters(rules, all))

PostProcessDedupFirst(rules, all) ==
    SortChannels(_apply_filters(rules, _remove_duplicates(all)))

\* lines 194-199: filters, duplicates, sort
PostProcess(rules, all) == SortChannels(_remove_duplicates(_apply_filters(rules, all)))

(***************************************************************************)
(* The environment: registered providers, what they can hand back, the     *)
(* filter configurations of a deployment, the request threads.             *)
(***************************************************************************)
\* self.providers, in insertion (iteration) order
Providers == <<"xumo", "tubi">>

Requests == {"r1", "r2"}

HBO == <<"H", "B", "O">>
NEWS == <<"N", "e", "w", "s">>
KIDS == <<"K", "i", "d", "s">>

\* raw records a provider may have scraped, before validate/normalize
RawChannelLists(provider_name) ==
    IF provider_name = "xumo"
    THEN { << [id |-> <<"1">>, name |-> HBO, stream_url |-> <<"u">>],
              [id |-> <<"2">>, name |-> NEWS, stream_url |-> <<"v">>,
               group |-> NEWS, number |-> 1],
              [id |-> <<"3">>, name |-> <<" ">>, stream_url |-> <<"u">>] >> }
    ELSE { << >>,
           << [id |-> <<"4">>, name |-> <<" ", "h", "b", "o", " ">>,
               stream_url |-> <<"u", " ">>, group |-> <<" ">>],
              [id |-> <<"1">>, name |-> KIDS, stream_url |-> <<"w">>, number |-> 1],
              [name |-> NEWS, stream_url |-> <<"v">>] >> }

\* guide tables a provider's get_epg_data may return
GuideTables(provider_name) ==
    IF provider_name = "xumo"
    THEN { [c \in {<<"1">>} |-> << [title |-> "a", start |-> 1, stop |-> 2] >>] }
    ELSE { [c \in {<<"1">>, <<"4">>} |-> << [title |-> "b", start |-> 2, stop |-> 3] >>] }

NoRules == [name_include |-> <<>>, name_exclude |-> <<>>,
            group_include |-> <<>>, group_exclude |-> <<>>]

\* the filter environment variables are read as they are (app.py 49-52)
FilterConfigs ==
    { NoRules,
      [NoRules EXCEPT !.name_exclude = <<"n", "e", "w", "s">>],
      [NoRules EXCEPT !.name_include = <<"[">>] }

\* the lock is free
Unlocked == "unlocked"

(***************************************************************************)
(* State.                                                                  *)
(***************************************************************************)
VARIABLES
    rules,            \* the four filter patterns
    now,              \* time.time()
    cache_lock,       \* holder of self.cache_lock, or Unlocked
    channels_cache,   \* self.channels_cache
    epg_cache,        \* self.epg_cache
    cache_expiry,     \* self.cache_expiry
    pc,               \* where each request thread is
    idx,              \* position of the provider loop
    all_channels,     \* local of _get_all_channels
    channel_number,   \* local of _get_all_channels
    all_epg_data,     \* local of _get_all_epg_data
    returned,         \* channel list a finished _get_all_channels returned
    returned_epg,     \* guide table a finished _get_all_epg_data returned
    failed,           \* history: providers that raised in this pass
    obs,              \* history: what this call observed
    clean,            \* history: nothing stored or cleared since the call returned
    prev_payload,     \* history: entry a failed pass overwrote
    cache_pre_clear,  \* history: stored payload was fetched before a clear
    fn,               \* the function a direct call applied ("" before the call)
    arg_channels,     \* direct call: the channel list passed in
    arg_results,      \* direct call: what each provider's call did, in order
    result,           \* direct call: the list (or guide table) handed back
    arg_kind,         \* direct call: what kind of input was drawn
    arg_raw,          \* direct call: raw records (or the text) passed in
    heap,             \* record objects: the dictionary each reference holds
    provider_cache,   \* the list object a caching provider keeps
    held,             \* the list a caller was handed by the last pass
    held_seen,        \* history: what that list held when it was handed over
    earlier,          \* history: the list of the pass before, and what it held then
    retries,          \* XumoProvider._fetch_data: its retries argument
    attempt,          \* XumoProvider._fetch_data: the loop variable
    fetch_pc,         \* XumoProvider._fetch_data: where the call is
    fetch_result,     \* XumoProvider._fetch_data: what it returned
    attempts,         \* history: the outcome of every request made
    slept,            \* history: the time.sleep() calls, in order
    access_token,     \* PlexProvider.access_token (0 is the empty string)
    token_expires_at, \* PlexProvider.token_expires_at
    plex_out,         \* history: the last _get_access_token / get_channels call
    distro_channels_cache,  \* DistroTVProvider.channels_cache
    distro_cache_expiry,    \* DistroTVProvider.cache_expiry
    distro_out        \* history: the last DistroTVProvider.get_channels call

vars == <<rules, now, cache_lock, channels_cache, epg_cache, cache_expiry, pc, idx,
          all_channels, channel_number, all_epg_data, returned, returned_epg,
          failed, obs, clean, prev_payload, cache_pre_clear,
          fn, arg_channels, arg_results, result, arg_kind, arg_raw,
          heap, provider_cache, held, held_seen, earlier,
          retries, attempt, fetch_pc, fetch_result, attempts, slept,
          access_token, token_expires_at, plex_out,
          distro_channels_cache, distro_cache_expiry, distro_out>>

fnVars == <<fn, arg_channels, arg_results, result, arg_kind, arg_raw>>
objVars == <<heap, provider_cache, held, held_seen, earlier>>
xumoVars == <<retries, attempt, fetch_pc, fetch_result, attempts, slept>>
plexVars == <<access_token, token_expires_at, plex_out>>
distroVars == <<distro_channels_cache, distro_cache_expiry, distro_out>>
provVars == <<xumoVars, plexVars, distroVars>>
cacheVars == <<channels_cache, epg_cache, cache_expiry>>
localVars == <<idx, all_channels, channel_number, all_epg_data>>

NoObs == [outcome |-> "", again |-> FALSE, pre_clear |-> FALSE,
          served_pre_clear |-> FALSE, no_prior |-> FALSE, had_prev |-> FALSE,
          cleared |-> FALSE, started_later |-> FALSE, regressed |-> FALSE]

\* the aggregator after construction, no request served yet
Constructed ==
    /\ now = 0
    /\ cache_lock = Unlocked
    /\ channels_cache = EmptyDict
    /\ epg_cache = EmptyDict
    /\ cache_expiry = EmptyDict
    /\ pc = [r \in Requests |-> "idle"]
    /\ idx = [r \in Requests |-> 0]
    /\ all_channels = [r \in Requests |-> <<>>]
    /\ channel_number = [r \in Requests |-> 0]
    /\ all_epg_data = [r \in Requests |-> EmptyDict]
    /\ returned = [r \in Requests |-> <<>>]
    /\ returned_epg = [r \in Requests |-> EmptyDict]
    /\ failed = [r \in Requests |-> {}]
    /\ obs = [r \in Requests |-> NoObs]
    /\ clean = [r \in Requests |-> FALSE]
    /\ prev_payload = [r \in Requests |-> <<>>]
    /\ cache_pre_clear = FALSE

\* no direct call is under way
NoCall ==
    /\ fn = ""
    /\ arg_kind = ""
    /\ arg_channels = <<>>
    /\ arg_results = <<>>
    /\ arg_raw = <<>>
    /\ result = <<>>

\* the Plex and DistroTV objects as their constructors leave them, no call
\* made yet
NoProviderCalls ==
    /\ access_token = 0 /\ token_expires_at = 0
    /\ plex_out = [called |-> FALSE, requested |-> FALSE, outcome |-> "", returned |-> 0,
                   channels |-> "", at |-> 0, held |-> 0, held_expires_at |-> 0]
    /\ distro_channels_cache = <<>> /\ distro_cache_expiry = 0
    /\ distro_out = [called |-> FALSE, scraped |-> FALSE, outcome |-> "", returned |-> <<>>,
                     at |-> 0, held |-> <<>>, held_expiry |-> 0]

\* the provider objects as their constructors leave them, no call running
NoProviders ==
    /\ retries = 0 /\ attempt = 0 /\ fetch_pc = "" /\ fetch_result = ""
    /\ attempts = <<>> /\ slept = <<>>
    /\ NoProviderCalls

\* no record object exists yet

NoObjects ==
    /\ heap = <<>>
    /\ provider_cache = <<>>
    /\ held = <<>>
    /\ held_seen = <<>>
    /\ earlier = <<>>

Init ==
    /\ rules \in FilterConfigs
    /\ Constructed
    /\ NoCall
    /\ NoObjects
    /\ NoProviders

(***************************************************************************)
(* The cache primitives.                                                   *)
(***************************************************************************)
\* variant: the comparison with the expiry is the wrong way round
_is_cache_valid_reversed(expiry, cache_key, t) ==
    Has(expiry, cache_key) /\ t > expiry[cache_key]

\* _is_cache_valid
_is_cache_valid(expiry, cache_key, t) == Has(expiry, cache_key) /\ t < expiry[cache_key]

\* variant: the block is entered without waiting for the lock
CanAcquireUnguarded(lock) == TRUE

\* `with self.cache_lock:` can be entered
CanAcquire(lock) == lock = Unlocked

StoreExpiryOtherKey(expiry, cache_key, t) ==
    Put(expiry, IF cache_key = "all_epg" THEN "all_channels" ELSE "all_epg",
        t + CacheDuration)

\* self.cache_expiry[cache_key] = time.time() + self.cache_duration
StoreExpiry(expiry, cache_key, t) == Put(expiry, cache_key, t + CacheDuration)

StoreChannelsUnlessEmpty(cache, cache_key, payload) ==
    IF payload = <<>> /\ Has(cache, cache_key) THEN cache
    ELSE Put(cache, cache_key, payload)

\* self.channels_cache[cache_key] = all_channels
StoreChannels(cache, cache_key, payload) == Put(cache, cache_key, payload)

\* self.epg_cache[cache_key] = all_epg_data
StoreEpg(cache, cache_key, payload) == Put(cache, cache_key, payload)

\* self.channels_cache.clear()
ClearChannels(cache) == EmptyDict

\* variant: the guide store is left as it is
ClearEpgForgotten(cache) == cache

\* self.epg_cache.clear()
ClearEpg(cache) == EmptyDict

\* self.cache_expiry.clear()
ClearExpiry(expiry) == EmptyDict

\* the threads that are between the cache check and the store of a key
RecomputingChannels ==
    {r \in Requests : pc[r] \in {"ch_fetch", "ch_store", "ch_store2"}}

RecomputingEpg ==
    {r \in Requests : pc[r] \in {"epg_fetch", "epg_store", "epg_store2"}}

AllFailed(r) == failed[r] = Range(Providers)

\* the thread is not inside a call: it has not served a request yet, or the
\* handler has its value (or its exception) and the next request may come
Ready == {"idle", "ch_return", "ch_raised", "epg_return", "epg_raised", "cl_return"}

(***************************************************************************)
(* _get_all_channels.  A thread can be descheduled where it blocks (the    *)
(* lock, a provider call) and between the statements of a locked block.    *)
(***************************************************************************)
\* lines 166-171: the check under the lock; a hit returns the stored list
ChCheck(r) ==
    /\ pc[r] \in Ready
    /\ CanAcquire(cache_lock)
    /\ IF _is_cache_valid(cache_expiry, "all_channels", now)
       THEN IF Has(channels_cache, "all_channels")
            THEN /\ pc' = [pc EXCEPT ![r] = "ch_return"]
                 /\ returned' = [returned EXCEPT ![r] = channels_cache["all_channels"]]
                 /\ obs' = [obs EXCEPT ![r] =
                               [NoObs EXCEPT !.outcome = "hit",
                                             !.again = clean[r] /\ pc[r] = "ch_return",
                                             !.served_pre_clear = cache_pre_clear]]
                 /\ clean' = [clean EXCEPT ![r] = TRUE]
                 /\ idx' = [idx EXCEPT ![r] = 0]
                 /\ channel_number' = [channel_number EXCEPT ![r] = 0]
            ELSE /\ pc' = [pc EXCEPT ![r] = "ch_raised"]
                 /\ returned' = [returned EXCEPT ![r] = <<>>]
                 /\ obs' = [obs EXCEPT ![r] = [NoObs EXCEPT !.outcome = "KeyError"]]
                 /\ clean' = [clean EXCEPT ![r] = FALSE]
                 /\ idx' = [idx EXCEPT ![r] = 0]
                 /\ channel_number' = [channel_number EXCEPT ![r] = 0]
       ELSE /\ pc' = [pc EXCEPT ![r] = "ch_fetch"]
            /\ returned' = [returned EXCEPT ![r] = <<>>]
            /\ channel_number' = [channel_number EXCEPT ![r] = 1]
            /\ idx' = [idx EXCEPT ![r] = 1]
            /\ obs' = [q \in Requests |->
                          IF q = r
                          THEN [NoObs EXCEPT
                                  !.no_prior = ~Has(channels_cache, "all_channels"),
                                  !.started_later = RecomputingChannels # {}]
                          ELSE [obs[q] EXCEPT !.started_later = FALSE]]
            /\ clean' = [clean EXCEPT ![r] = FALSE]
    /\ all_channels' = [all_channels EXCEPT ![r] = <<>>]
    /\ all_epg_data' = [all_epg_data EXCEPT ![r] = EmptyDict]
    /\ returned_epg' = [returned_epg EXCEPT ![r] = EmptyDict]
    /\ failed' = [failed EXCEPT ![r] = {}]
    /\ prev_payload' = [prev_payload EXCEPT ![r] = <<>>]
    /\ UNCHANGED <<fnVars, objVars, provVars, rules, now, cache_lock, cacheVars, cache_pre_clear>>

\* lines 194-199 after the last provider: "ch_raised" when re.search raises
AfterLoop(r, fetched) ==
    IF FilterRaises(rules, fetched)
    THEN /\ pc' = [pc EXCEPT ![r] = "ch_raised"]
         /\ obs' = [obs EXCEPT ![r] = [@ EXCEPT !.outcome = "re.error"]]
         /\ all_channels' = [all_channels EXCEPT ![r] = fetched]
    ELSE /\ pc' = [pc EXCEPT ![r] = "ch_store"]
         /\ all_channels' = [all_channels EXCEPT ![r] = PostProcess(rules, fetched)]
         /\ UNCHANGED obs

\* lines 173-199: one iteration of the provider loop; get_channels raises,
\* or returns the validated and normalized records of what it scraped.
\* After the last provider the list is filtered, deduplicated and sorted.
ChFetch(r) ==
    /\ pc[r] = "ch_fetch"
    /\ LET provider_name == Providers[idx[r]]
           last == idx[r] = Len(Providers)
           Continue(fetched) ==
               IF last THEN AfterLoop(r, fetched)
               ELSE /\ pc' = pc
                    /\ all_channels' = [all_channels EXCEPT ![r] = fetched]
                    /\ UNCHANGED obs
       IN  \/ /\ failed' = [failed EXCEPT ![r] = @ \cup {provider_name}]
              /\ UNCHANGED channel_number
              /\ Continue(all_channels[r])
           \/ \E raws \in RawChannelLists(provider_name) :
                LET provider_channels == ProviderProcess(raws)
                IN  /\ channel_number' = [channel_number EXCEPT ![r] =
                               @ + Len(provider_channels)]
                    /\ Continue(all_channels[r] \o
                                AnnotateAll(provider_channels, provider_name,
                                            channel_number[r]))
                    /\ UNCHANGED failed
    /\ idx' = [idx EXCEPT ![r] = @ + 1]
    /\ UNCHANGED <<fnVars, objVars, provVars, rules, now, cache_lock, cacheVars, all_epg_data, returned,
                   returned_epg, clean, prev_payload, cache_pre_clear>>

\* every provider failed in r's pass, and the entry that was there (expired)
\* when the pass began is still in the store
FailedOverPrevious(r) ==
    AllFailed(r) /\ ~obs[r].no_prior /\ Has(channels_cache, "all_channels")

\* the entry in the store is the result of a pass whose provider loop began
\* after that of r's pass
ReplacesLaterPass(r) ==
    \E q \in Requests \ {r} :
        /\ obs[q].started_later
        /\ pc[q] = "ch_return" /\ obs[q].outcome = "miss"
        /\ clean[q]

\* lines 202-203: the lock is taken and the payload written
ChStore1(r) ==
    /\ pc[r] = "ch_store"
    /\ CanAcquire(cache_lock)
    /\ cache_lock' = r
    /\ channels_cache' = StoreChannels(channels_cache, "all_channels", all_channels[r])
    /\ pc' = [pc EXCEPT ![r] = "ch_store2"]
    /\ obs' = [obs EXCEPT ![r] = [@ EXCEPT !.had_prev = FailedOverPrevious(r),
                                           !.regressed = ReplacesLaterPass(r)]]
    /\ prev_payload' = [prev_payload EXCEPT ![r] =
                           IF FailedOverPrevious(r)
                           THEN channels_cache["all_channels"] ELSE <<>>]
    /\ clean' = [q \in Requests |-> FALSE]
    /\ cache_pre_clear' = obs[r].pre_clear
    /\ UNCHANGED <<fnVars, objVars, provVars, rules, now, epg_cache, cache_expiry, localVars,
                   returned, returned_epg, failed>>

\* lines 204-207: the expiry, the lock is released, the list is returned
ChStore2(r) ==
    /\ pc[r] = "ch_store2"
    /\ cache_expiry' = StoreExpiry(cache_expiry, "all_channels", now)
    /\ cache_lock' = Unlocked
    /\ pc' = [pc EXCEPT ![r] = "ch_return"]
    /\ returned' = [returned EXCEPT ![r] = all_channels[r]]
    /\ obs' = [obs EXCEPT ![r] = [@ EXCEPT !.outcome = "miss"]]
    /\ clean' = [clean EXCEPT ![r] = TRUE]
    /\ UNCHANGED <<fnVars, objVars, provVars, rules, now, channels_cache, epg_cache, localVars, returned_epg,
                   failed, prev_payload, cache_pre_clear>>

(***************************************************************************)
(* _get_all_epg_data.                                                      *)
(***************************************************************************)
\* all_epg_data.update(provider_epg)
DictUpdate(d, other) ==
    [k \in DOMAIN d \cup DOMAIN other |-> IF Has(other, k) THEN other[k] ELSE d[k]]

\* lines 213-217
EpgCheck(r) ==
    /\ pc[r] \in Ready
    /\ CanAcquire(cache_lock)
    /\ IF _is_cache_valid(cache_expiry, "all_epg", now)
       THEN IF Has(epg_cache, "all_epg")
            THEN /\ pc' = [pc EXCEPT ![r] = "epg_return"]
                 /\ returned_epg' = [returned_epg EXCEPT ![r] = epg_cache["all_epg"]]
                 /\ obs' = [obs EXCEPT ![r] = [NoObs EXCEPT !.outcome = "hit"]]
                 /\ idx' = [idx EXCEPT ![r] = 0]
            ELSE /\ pc' = [pc EXCEPT ![r] = "epg_raised"]
                 /\ returned_epg' = [returned_epg EXCEPT ![r] = EmptyDict]
                 /\ obs' = [obs EXCEPT ![r] = [NoObs EXCEPT !.outcome = "KeyError"]]
                 /\ idx' = [idx EXCEPT ![r] = 0]
       ELSE /\ pc' = [pc EXCEPT ![r] = "epg_fetch"]
            /\ returned_epg' = [returned_epg EXCEPT ![r] = EmptyDict]
            /\ idx' = [idx EXCEPT ![r] = 1]
            /\ obs' = [obs EXCEPT ![r] =
                          [NoObs EXCEPT !.no_prior = ~Has(epg_cache, "all_epg")]]
    /\ all_epg_data' = [all_epg_data EXCEPT ![r] = EmptyDict]
    /\ all_channels' = [all_channels EXCEPT ![r] = <<>>]
    /\ channel_number' = [channel_number EXCEPT ![r] = 0]
    /\ returned' = [returned EXCEPT ![r] = <<>>]
    /\ failed' = [failed EXCEPT ![r] = {}]
    /\ prev_payload' = [prev_payload EXCEPT ![r] = <<>>]
    /\ clean' = [clean EXCEPT ![r] = FALSE]
    /\ UNCHANGED <<fnVars, objVars, provVars, rules, now, cache_lock, cacheVars, cache_pre_clear>>

\* lines 219-229: one iteration of the provider loop
EpgFetch(r) ==
    /\ pc[r] = "epg_fetch"
    /\ LET provider_name == Providers[idx[r]]
       IN  \/ /\ failed' = [failed EXCEPT ![r] = @ \cup {provider_name}]
              /\ UNCHANGED all_epg_data
           \/ \E provider_epg \in GuideTables(provider_name) :
                /\ IF DOMAIN provider_epg # {}
                   THEN all_epg_data' = [all_epg_data EXCEPT ![r] =
                                            DictUpdate(@, provider_epg)]
                   ELSE UNCHANGED all_epg_data
                /\ UNCHANGED failed
    /\ idx' = [idx EXCEPT ![r] = @ + 1]
    /\ pc' = [pc EXCEPT ![r] =
                 IF idx[r] = Len(Providers) THEN "epg_store" ELSE "epg_fetch"]
    /\ UNCHANGED <<fnVars, objVars, provVars, rules, now, cache_lock, cacheVars, all_channels, channel_number,
                   returned, returned_epg, obs, clean, prev_payload, cache_pre_clear>>

EpgStore1Unlocked(r) ==
    /\ pc[r] = "epg_store"
    /\ epg_cache' = StoreEpg(epg_cache, "all_epg", all_epg_data[r])
    /\ pc' = [pc EXCEPT ![r] = "epg_store2"]
    /\ UNCHANGED <<fnVars, objVars, provVars, rules, now, cache_lock, channels_cache, cache_expiry,
                   localVars, returned, returned_epg, failed, obs, clean,
                   prev_payload, cache_pre_clear>>

\* lines 232-233
EpgStore1(r) ==
    /\ pc[r] = "epg_store"
    /\ CanAcquire(cache_lock)
    /\ cache_lock' = r
    /\ epg_cache' = StoreEpg(epg_cache, "all_epg", all_epg_data[r])
    /\ pc' = [pc EXCEPT ![r] = "epg_store2"]
    /\ UNCHANGED <<fnVars, objVars, provVars, rules, now, channels_cache, cache_expiry, localVars,
                   returned, returned_epg, failed, obs, clean, prev_payload,
                   cache_pre_clear>>

\* lines 234-236
EpgStore2(r) ==
    /\ pc[r] = "epg_store2"
    /\ cache_expiry' = StoreExpiry(cache_expiry, "all_epg", now)
    /\ cache_lock' = Unlocked
    /\ pc' = [pc EXCEPT ![r] = "epg_return"]
    /\ returned_epg' = [returned_epg EXCEPT ![r] = all_epg_data[r]]
    /\ obs' = [obs EXCEPT ![r] = [@ EXCEPT !.outcome = "miss"]]
    /\ UNCHANGED <<fnVars, objVars, provVars, rules, now, channels_cache, epg_cache, localVars, returned,
                   failed, clean, prev_payload, cache_pre_clear>>

(***************************************************************************)
(* clear_cache.                                                            *)
(***************************************************************************)
\* lines 446-447
ClChannels(r) ==
    /\ pc[r] \in Ready
    /\ CanAcquire(cache_lock)
    /\ cache_lock' = r
    /\ channels_cache' = ClearChannels(channels_cache)
    /\ pc' = [pc EXCEPT ![r] = "cl_epg"]
    /\ obs' = [q \in Requests |->
                 IF q = r
                 THEN [NoObs EXCEPT !.cleared = DOMAIN channels_cache # {}
                                               /\ DOMAIN epg_cache # {}]
                 ELSE IF q \in RecomputingChannels
                      THEN [obs[q] EXCEPT !.pre_clear = TRUE]
                      ELSE obs[q]]
    /\ clean' = [q \in Requests |-> FALSE]
    /\ cache_pre_clear' = FALSE
    /\ idx' = [idx EXCEPT ![r] = 0]
    /\ all_channels' = [all_channels EXCEPT ![r] = <<>>]
    /\ channel_number' = [channel_number EXCEPT ![r] = 0]
    /\ all_epg_data' = [all_epg_data EXCEPT ![r] = EmptyDict]
    /\ returned' = [returned EXCEPT ![r] = <<>>]
    /\ returned_epg' = [returned_epg EXCEPT ![r] = EmptyDict]
    /\ failed' = [failed EXCEPT ![r] = {}]
    /\ prev_payload' = [prev_payload EXCEPT ![r] = <<>>]
    /\ UNCHANGED <<fnVars, objVars, provVars, rules, now, epg_cache, cache_expiry>>

\* line 448
ClEpg(r) ==
    /\ pc[r] = "cl_epg"
    /\ epg_cache' = ClearEpg(epg_cache)
    /\ pc' = [pc EXCEPT ![r] = "cl_expiry"]
    /\ UNCHANGED <<fnVars, objVars, provVars, rules, now, cache_lock, channels_cache, cache_expiry, localVars,
                   returned, returned_epg, failed, obs, clean, prev_payload,
                   cache_pre_clear>>

ClExpiryKeepsLock(r) ==
    /\ pc[r] = "cl_expiry"
    /\ cache_expiry' = ClearExpiry(cache_expiry)
    /\ pc' = [pc EXCEPT ![r] = "cl_return"]
    /\ UNCHANGED <<fnVars, objVars, provVars, rules, now, cache_lock, channels_cache, epg_cache,
                   localVars, returned, returned_epg, failed, obs, clean,
                   prev_payload, cache_pre_clear>>

\* lines 449-451: the last clear; the lock is released, the response built
ClExpiry(r) ==
    /\ pc[r] = "cl_expiry"
    /\ cache_expiry' = ClearExpiry(cache_expiry)
    /\ cache_lock' = Unlocked
    /\ pc' = [pc EXCEPT ![r] = "cl_return"]
    /\ UNCHANGED <<fnVars, objVars, provVars, rules, now, channels_cache, epg_cache, localVars, returned,
                   returned_epg, failed, obs, clean, prev_payload, cache_pre_clear>>

\* time passes
Tick ==
    /\ now < MaxTime
    /\ now' = now + 1
    /\ UNCHANGED <<fnVars, objVars, provVars, rules, cache_lock, cacheVars, pc, localVars, returned,
                   returned_epg, failed, obs, clean, prev_payload, cache_pre_clear>>

Next ==
    \/ Tick
    \/ \E r \in Requests :
        \/ ChCheck(r) \/ ChFetch(r) \/ ChStore1(r) \/ ChStore2(r)
        \/ EpgCheck(r) \/ EpgFetch(r) \/ EpgStore1(r) \/ EpgStore2(r)
        \/ ClChannels(r) \/ ClEpg(r) \/ ClExpiry(r)

Spec == Init /\ [][Next]_vars

(***************************************************************************)
(* Properties.                                                             *)
(***************************************************************************)
\* the channel lists that are stored, about to be stored, or returned
MergedLists ==
    {channels_cache[k] : k \in DOMAIN channels_cache}
    \cup {returned[r] : r \in {q \in Requests : pc[q] = "ch_return"}}
    \cup {all_channels[r] : r \in {q \in Requests : pc[q] \in {"ch_store", "ch_store2"}}}

ValidChannel(channel) ==
    \A field \in RequiredFields : Has(channel, field) /\ channel[field] # <<>>

\* every store and the expiry table hold no entry, no key is valid
AllEmpty ==
    /\ DOMAIN channels_cache = {}
    /\ DOMAIN epg_cache = {}
    /\ DOMAIN cache_expiry = {}
    /\ \A k \in {"all_channels", "all_epg"} : ~_is_cache_valid(cache_expiry, k, now)

\* C1: single-flight - for each key at most one request at a time is between
\* a cache miss and the store of the recomputed payload, so concurrent
\* callers never run more than one fan-out over the providers.
C1_SingleFlight ==
    /\ Cardinality(RecomputingChannels) <= 1
    /\ Cardinality(RecomputingEpg) <= 1

\* C2: a caller that holds the list of a call to _get_all_channels, with
\* nothing stored or cleared since that call returned, and calls again before
\* the stored expiry time, does not enter the provider loop and gets the same
\* list again.
C2_HitWithinTtl ==
    [][\A r \in Requests :
        (/\ pc[r] = "ch_return"
         /\ clean[r]
         /\ Has(cache_expiry, "all_channels")
         /\ now < cache_expiry["all_channels"]
         /\ pc'[r] \in {"ch_return", "ch_fetch", "ch_raised"})
        => (pc'[r] = "ch_return" /\ returned'[r] = returned[r])]_vars

\* a second call was served from the cache, with a non-empty list
C2_Witness ==
    \E r \in Requests :
        pc[r] = "ch_return" /\ obs[r].again /\ obs[r].outcome = "hit"
        /\ returned[r] # <<>>

\* C3: stale-but-available - a recomputation in which every provider failed,
\* with a previous entry in the store, returns the previous payload.
C3_StaleServed ==
    \A r \in Requests :
        (pc[r] = "ch_return" /\ obs[r].had_prev) => returned[r] = prev_payload[r]

\* C4: failure isolation - a pass in which some provider raised still
\* completes without raising, and no record of a provider that raised is in
\* the result.
C4_FailureIsolated ==
    \A r \in Requests :
        failed[r] # {} =>
            /\ pc[r] \notin {"ch_raised", "epg_raised"}
            /\ pc[r] = "ch_return" =>
                 \A i \in 1..Len(returned[r]) : returned[r][i].provider \notin failed[r]

\* C5: a call that found no entry for its key never raises, and returns the
\* empty list (the empty guide table) when every provider failed.
C5_EmptyNeverRaises ==
    \A r \in Requests :
        obs[r].no_prior =>
            /\ pc[r] \notin {"ch_raised", "epg_raised"}
            /\ (pc[r] = "ch_return" /\ AllFailed(r)) => returned[r] = <<>>
            /\ (pc[r] = "epg_return" /\ AllFailed(r)) => DOMAIN returned_epg[r] = {}

\* C6: in the state in which clear_cache completes, the channel store, the
\* guide store and the expiry table hold no entry and no key is valid.
C6_ClearEmpties ==
    [][\A r \in Requests :
        (pc[r] = "cl_expiry" /\ pc'[r] = "cl_return") => AllEmpty']_vars

\* clear_cache completed on stores that both held an entry
C6_Witness ==
    \E r \in Requests : pc[r] = "cl_return" /\ obs[r].cleared /\ AllEmpty

\* C7: a read is never served, as a cache hit, a payload whose computation
\* passed its cache check before a clear_cache that precedes the read.
C7_NoPreClearPayloadServed ==
    \A r \in Requests : ~obs[r].served_pre_clear

\* C8: whenever the lock can be taken, a key that is in the expiry table has
\* its payload in the payload store, and no cache hit ever fails on a
\* missing payload.
C8_NoHalfWritten ==
    /\ cache_lock = Unlocked =>
         /\ Has(cache_expiry, "all_channels") => Has(channels_cache, "all_channels")
         /\ Has(cache_expiry, "all_epg") => Has(epg_cache, "all_epg")
    /\ \A r \in Requests : obs[r].outcome # "KeyError"

\* clear_cache is half-way (a valid expiry without its payload) while the
\* other thread has a request to make
C8_Witness ==
    \E r, q \in Requests :
        /\ r # q
        /\ pc[q] = "cl_epg"
        /\ _is_cache_valid(cache_expiry, "all_channels", now)
        /\ ~Has(channels_cache, "all_channels")
        /\ pc[r] \in Ready

\* C9: every channel of a merged list (stored, about to be stored, or
\* returned) has a non-empty id, name and stream_url.
C9_MergedValid ==
    \A merged \in MergedLists : \A i \in 1..Len(merged) : ValidChannel(merged[i])

\* a pass stored a non-empty list built from the records of xumo, one of
\* which has a name of whitespace only
C9_Witness ==
    \E r \in Requests :
        /\ pc[r] = "ch_return" /\ obs[r].outcome = "miss"
        /\ "xumo" \notin failed[r]
        /\ returned[r] # <<>>
        /\ Has(channels_cache, "all_channels")
        /\ channels_cache["all_channels"] = returned[r]

\* C10: no two channels of a merged list have the same id.
C10_UniqueIds ==
    \A merged \in MergedLists :
        \A i, j \in 1..Len(merged) : i # j => merged[i].id # merged[j].id

(***************************************************************************)
(* Direct calls: one function of the aggregator applied to one input.      *)
(***************************************************************************)
\* longest channel list passed to _apply_filters, _remove_duplicates, sort
MaxLen == 3
\* most records one provider hands back in a direct call of the loop
MaxPerProvider == 2

\* records as the merged list may hold them; the sort key also provides for
\* records that carry no channel_number
ChannelPool ==
    { [id |-> <<"a">>, name |-> HBO, stream_url |-> <<"u">>,
       group |-> NEWS, channel_number |-> 2],
      [id |-> <<"b">>, name |-> <<" ", "h", "b", "o">>, stream_url |-> <<"u">>,
       group |-> KIDS, channel_number |-> 1],
      [id |-> <<"c">>, name |-> NEWS, stream_url |-> <<"v">>,
       group |-> NEWS, channel_number |-> 2],
      [id |-> <<"d">>, name |-> <<" ">>, stream_url |-> <<"u">>],
      [id |-> <<"e">>, name |-> KIDS, stream_url |-> <<"x">>,
       group |-> KIDS, channel_number |-> 1000000],
      [id |-> <<"f">>, name |-> HBO, stream_url |-> <<"w">>],
      [id |-> <<"g">>, name |-> KIDS, stream_url |-> <<>>,
       group |-> KIDS, channel_number |-> 1] }

SeqsUpTo(S, n) == UNION {[1..k -> S] : k \in 0..n}

ChannelLists == SeqsUpTo(ChannelPool, MaxLen)

\* normalized records as a provider's get_channels returns them
ProviderPool ==
    { [id |-> <<"1">>, name |-> HBO, stream_url |-> <<"u">>,
       group |-> <<"G", "e", "n", "e", "r", "a", "l">>, language |-> <<"e", "n">>],
      [id |-> <<"2">>, name |-> HBO, stream_url |-> <<"u">>,
       group |-> KIDS, language |-> <<"e", "n">>, number |-> 1],
      [id |-> <<"3">>, name |-> NEWS, stream_url |-> <<"v">>,
       group |-> NEWS, language |-> <<"e", "n">>, number |-> 1],
      [id |-> <<"4">>, name |-> KIDS, stream_url |-> <<"w">>,
       group |-> KIDS, language |-> <<"e", "n">>] }

\* one provider's get_channels: it raised, or it returned a list
ProviderOutcomes ==
    {[raised |-> TRUE, channels |-> <<>>]}
    \cup {[raised |-> FALSE, channels |-> c] : c \in SeqsUpTo(ProviderPool, MaxPerProvider)}

\* one outcome per registered provider, in iteration order
ResultTuples == [1..Len(Providers) -> ProviderOutcomes]

\* filter configurations of the direct calls
PatternSets ==
    FilterConfigs \cup
    { [NoRules EXCEPT !.name_include = <<"h", "b", "o">>],
      [NoRules EXCEPT !.group_include = <<"n", "e", "w", "s">>],
      [NoRules EXCEPT !.group_exclude = <<"k", "i", "d", "s">>],
      [NoRules EXCEPT !.name_include = <<"h", "b", "o">>,
                      !.group_exclude = <<"n", "e", "w", "s">>] }

\* lines 173-192 as one function of the providers' outcomes
RECURSIVE ProviderLoop(_, _, _, _)
ProviderLoop(results, i, all, counter) ==
    IF i > Len(results) THEN all
    ELSE IF results[i].raised THEN ProviderLoop(results, i + 1, all, counter)
    ELSE ProviderLoop(results, i + 1,
                      all \o AnnotateAll(results[i].channels, Providers[i], counter),
                      counter + Len(results[i].channels))

\* most raw records (programmes) passed to a validate-and-normalize loop
MaxRaw == 2
\* longest text passed to clean_tvg_name_value
MaxText == 4

\* raw channel records as a provider scraped them
RawChannelPool ==
    { [id |-> <<"1">>, name |-> HBO, stream_url |-> <<"u">>],
      [id |-> <<"2">>, name |-> <<" ">>, stream_url |-> <<"u">>],
      [id |-> <<"3">>, name |-> <<>>, stream_url |-> <<"u">>],
      [id |-> <<"4">>, name |-> NEWS],
      [id |-> <<" ">>, name |-> NEWS, stream_url |-> <<"v">>],
      [id |-> <<"5">>, name |-> KIDS, stream_url |-> <<"w", " ">>,
       group |-> <<" ">>, language |-> <<"f", "r", " ">>],
      [id |-> <<"6">>, name |-> NEWS, stream_url |-> <<"v">>,
       group |-> <<" ", "N", "e", "w", "s">>, language |-> <<>>],
      [id |-> <<"7">>, name |-> HBO, stream_url |-> <<"u">>, number |-> 7],
      [id |-> <<"8">>, name |-> <<"H", "B", "O", " ">>, stream_url |-> <<"u">>,
       number_text |-> <<" ", "7">>],
      [id |-> <<"9">>, name |-> <<"H", "B", "O", " ">>, stream_url |-> <<"u">>,
       number_text |-> <<"a">>],
      [id |-> <<"0">>, name |-> <<"H", "B", "O", " ">>, stream_url |-> <<"u">>,
       number_inf |-> TRUE] }

\* raw programmes as a provider's get_epg_data built them
RawProgrammePool ==
    { [title |-> <<"a">>, start |-> <<"1">>, stop |-> <<"2">>],
      [title |-> <<"a">>, start |-> <<"2">>, stop |-> <<"1">>,
       description |-> <<" ">>],
      [title |-> <<"b">>, start |-> <<"1">>, stop |-> <<"1">>],
      [title |-> <<" ">>, start |-> <<"1">>, stop |-> <<"2">>],
      [title |-> <<>>, start |-> <<"1">>, stop |-> <<"2">>],
      [title |-> <<"b">>, start |-> <<"1">>] }

TextAlphabet == {" ", "5", "B"}

\* the modules providers/__init__.py imports, in its order (base_provider,
\* which every one of them imports first, is taken to load)
InitOrder == <<"xumo_provider", "tubi_provider", "pluto_provider",
               "remaining_providers", "git_providers">>

\* the `from providers.<module> import ...` statements of _init_providers
ImportStatements == <<"xumo_provider", "tubi_provider", "pluto_provider",
                      "remaining_providers">>

\* the names _init_providers enters in available_providers for a module
ProvidedBy(module) ==
    CASE module = "xumo_provider" -> <<"xumo">>
      [] module = "tubi_provider" -> <<"tubi">>
      [] module = "pluto_provider" -> <<"pluto">>
      [] module = "remaining_providers" -> <<"plex", "samsung">>

\* an installation: the modules whose import raises, ENABLED_PROVIDERS, and
\* the providers whose constructor raises
Installations ==
    [broken : SUBSET Range(InitOrder),
     \* os.getenv('ENABLED_PROVIDERS', 'all').split(',')
     enabled_providers : {<<"all">>, <<"xumo">>, <<"tubi", "plex">>, <<"all", "xumo">>},
     ctor_raises : SUBSET {"xumo", "plex"}]

\* running providers/__init__.py from its i-th import on: a module already in
\* sys.modules is not loaded again; the first import that raises ends it
RECURSIVE RunPackageInit(_, _, _)
RunPackageInit(i, loaded, broken) ==
    IF i > Len(InitOrder) THEN [ok |-> TRUE, loaded |-> loaded]
    ELSE IF InitOrder[i] \in loaded THEN RunPackageInit(i + 1, loaded, broken)
    ELSE IF InitOrder[i] \in broken THEN [ok |-> FALSE, loaded |-> loaded]
    ELSE RunPackageInit(i + 1, loaded \cup {InitOrder[i]}, broken)

\* `from providers.<module> import ...` with sys.modules as in st: a module in
\* sys.modules is found at once; otherwise the package is imported first
\* (its __init__ runs unless the package is in sys.modules), then the module
ImportFrom(module, st, broken) ==
    IF module \in st.loaded THEN [ok |-> TRUE, st |-> st]
    ELSE LET pk == IF st.package THEN [ok |-> TRUE, loaded |-> st.loaded]
                   ELSE RunPackageInit(1, st.loaded, broken)
         IN  IF ~pk.ok
             THEN [ok |-> FALSE, st |-> [loaded |-> pk.loaded, package |-> FALSE]]
             ELSE IF module \in pk.loaded
             THEN [ok |-> TRUE, st |-> [loaded |-> pk.loaded, package |-> TRUE]]
             ELSE IF module \in broken
             THEN [ok |-> FALSE, st |-> [loaded |-> pk.loaded, package |-> TRUE]]
             ELSE [ok |-> TRUE,
                   st |-> [loaded |-> pk.loaded \cup {module}, package |-> TRUE]]

\* lines 61-87: the four try blocks; available_providers in insertion order
RECURSIVE AvailableProviders(_, _, _)
AvailableProviders(i, st, broken) ==
    IF i > Len(ImportStatements) THEN <<>>
    ELSE LET r == ImportFrom(ImportStatements[i], st, broken)
         IN  (IF r.ok THEN ProvidedBy(ImportStatements[i]) ELSE <<>>)
                 \o AvailableProviders(i + 1, r.st, broken)

\* `self.enabled_providers == ['all'] or name in self.enabled_providers`
Enabled(name, enabled_providers) ==
    enabled_providers = <<"all">> \/ name \in Range(enabled_providers)

\* lines 89-102: the keys of self.providers, in order
RECURSIVE RegisterLoop(_, _)
RegisterLoop(available, inst) ==
    IF available = <<>> THEN <<>>
    ELSE LET name == Head(available)
         IN  (IF Enabled(name, inst.enabled_providers) /\ name \notin inst.ctor_raises
              THEN <<name>> ELSE <<>>) \o RegisterLoop(Tail(available), inst)

_init_providers(inst) ==
    RegisterLoop(AvailableProviders(1, [loaded |-> {}, package |-> FALSE], inst.broken),
                 inst)

RawInputs(kind) ==
    CASE kind = "raw_channels" -> SeqsUpTo(RawChannelPool, MaxRaw)
      [] kind = "raw_programmes" -> SeqsUpTo(RawProgrammePool, MaxRaw)
      [] kind = "text" -> SeqsUpTo(TextAlphabet, MaxText)
      [] kind = "registration" -> Installations

\* the endpoint handlers (_setup_routes)
Handlers == {"get_playlist", "get_epg_xml", "get_epg_xml_gz", "get_channels_json",
             "get_status", "get_debug_info", "clear_cache"}

\* _get_all_channels on an empty cache: it raises re.error, or returns a list
GetAllChannelsOutcome(rs, results) ==
    LET all == ProviderLoop(results, 1, <<>>, 1)
    IN  IF FilterRaises(rs, all)
        THEN [raised |-> TRUE, channels |-> <<>>]
        ELSE [raised |-> FALSE, channels |-> PostProcess(rs, all)]

\* a handler's try block: the Response it builds from the channel list, or
\* the Response of its except clause
Render(outcome) ==
    IF outcome.raised
    THEN [status |-> 500, body |-> "error", gzip |-> FALSE, items |-> 0]
    ELSE [status |-> 200, body |-> "rendered", gzip |-> FALSE,
          items |-> Len(outcome.channels)]

\* get_epg_xml_gz: compresses the data of whatever get_epg_xml returned
Compress(response) == [response EXCEPT !.status = 200, !.gzip = TRUE]

HandlerResponse(h, rs, results) ==
    IF h = "clear_cache"
    THEN [status |-> 200, body |-> "rendered", gzip |-> FALSE, items |-> 0]
    ELSE IF h = "get_epg_xml_gz"
         THEN Compress(Render(GetAllChannelsOutcome(rs, results)))
         ELSE Render(GetAllChannelsOutcome(rs, results))

FnInit ==
    /\ Constructed
    /\ NoObjects
    /\ NoProviders
    /\ fn = ""
    /\ result = <<>>
    /\ \/ /\ arg_kind = "channels"
          /\ rules \in PatternSets
          /\ arg_channels \in ChannelLists /\ arg_results = <<>> /\ arg_raw = <<>>
       \/ /\ arg_kind = "results"
          /\ rules \in PatternSets
          /\ arg_channels = <<>> /\ arg_results \in ResultTuples /\ arg_raw = <<>>
       \/ /\ arg_kind \in {"raw_channels", "raw_programmes", "text", "registration"}
          /\ rules = NoRules
          /\ arg_channels = <<>> /\ arg_results = <<>>
          /\ arg_raw \in RawInputs(arg_kind)

\* what a direct call leaves as it is
argVars == <<rules, arg_kind, arg_channels, arg_results, arg_raw, objVars, provVars>>

coreVars == <<now, cache_lock, cacheVars, pc, localVars, returned, returned_epg,
              failed, obs, clean, prev_payload, cache_pre_clear>>

\* self._apply_filters(arg_channels)
CallApplyFilters ==
    /\ fn = "" /\ arg_kind = "channels"
    /\ IF FilterRaises(rules, arg_channels)
       THEN fn' = "re.error" /\ result' = <<>>
       ELSE fn' = "_apply_filters" /\ result' = _apply_filters(rules, arg_channels)
    /\ UNCHANGED <<argVars, coreVars>>

\* self._remove_duplicates(arg_channels)
CallRemoveDuplicates ==
    /\ fn = "" /\ arg_kind = "channels"
    /\ fn' = "_remove_duplicates"
    /\ result' = _remove_duplicates(arg_channels)
    /\ UNCHANGED <<argVars, coreVars>>

\* arg_channels.sort(key=lambda x: x.get('channel_number', 999999))
CallSort ==
    /\ fn = "" /\ arg_kind = "channels"
    /\ fn' = "sort"
    /\ result' = SortChannels(arg_channels)
    /\ UNCHANGED <<argVars, coreVars>>

\* the provider loop of _get_all_channels alone (lines 170-192)
CallProviderLoop ==
    /\ fn = "" /\ arg_kind = "results"
    /\ fn' = "provider_loop"
    /\ result' = ProviderLoop(arg_results, 1, <<>>, 1)
    /\ UNCHANGED <<argVars, coreVars>>

\* _get_all_channels on an empty cache, from the loop to the sort
CallGetAllChannels ==
    /\ fn = "" /\ arg_kind = "results"
    /\ LET all == ProviderLoop(arg_results, 1, <<>>, 1)
       IN  IF FilterRaises(rules, all)
           THEN fn' = "re.error" /\ result' = <<>>
           ELSE fn' = "_get_all_channels" /\ result' = PostProcess(rules, all)
    /\ UNCHANGED <<argVars, coreVars>>

\* the validate-and-normalize loop of a provider's get_channels
CallProviderProcess ==
    /\ fn = "" /\ arg_kind = "raw_channels"
    /\ fn' = "validate_normalize"
    /\ result' = ProviderProcess(arg_raw)
    /\ UNCHANGED <<argVars, coreVars>>

\* the validate-and-normalize loop of a provider's get_epg_data
CallProgrammeProcess ==
    /\ fn = "" /\ arg_kind = "raw_programmes"
    /\ fn' = "validate_normalize_programme"
    /\ result' = ProgrammeProcess(arg_raw)
    /\ UNCHANGED <<argVars, coreVars>>

\* clean_tvg_name_value(arg_raw)
CallCleanTvgName ==
    /\ fn = "" /\ arg_kind = "text"
    /\ fn' = "clean_tvg_name_value"
    /\ result' = clean_tvg_name_value(arg_raw)
    /\ UNCHANGED <<argVars, coreVars>>

\* self._init_providers() in the constructor
CallInitProviders ==
    /\ fn = "" /\ arg_kind = "registration"
    /\ fn' = "_init_providers"
    /\ result' = _init_providers(arg_raw)
    /\ UNCHANGED <<argVars, coreVars>>

\* a request to one endpoint, on an empty cache
CallHandler(h) ==
    /\ fn = "" /\ arg_kind = "results"
    /\ fn' = h
    /\ result' = HandlerResponse(h, rules, arg_results)
    /\ UNCHANGED <<argVars, coreVars>>

FnNext ==
    \/ CallProviderProcess
    \/ CallProgrammeProcess
    \/ CallCleanTvgName
    \/ CallInitProviders
    \/ \E h \in Handlers : CallHandler(h)
    \/ CallApplyFilters
    \/ CallRemoveDuplicates
    \/ CallSort
    \/ CallProviderLoop
    \/ CallGetAllChannels

FnSpec == FnInit /\ [][FnNext]_vars

(***************************************************************************)
(* Record objects.  The provider loop annotates the dictionaries a          *)
(* provider returned in place (app.py lines 180-183), and a provider may    *)
(* return the list it cached (distrotv_provider.py lines 439-441, 496-504). *)
(* A reference is a position of heap.                                       *)
(***************************************************************************)
\* most dictionaries ever allocated
MaxObjects == 6
\* most records one scrape returns
MaxScrape == 2

DigitChars == <<"1", "2", "3", "4", "5", "6", "7", "8", "9">>

\* the n normalized records a scrape of the provider yields (no 'number')
Scrape(letter, n) ==
    [i \in 1..n |->
        [id |-> <<letter, DigitChars[i]>>, name |-> <<letter, DigitChars[i]>>,
         stream_url |-> <<"u", letter, DigitChars[i]>>,
         group |-> <<"G", "e", "n", "e", "r", "a", "l">>, language |-> <<"e", "n">>]]

Deref(h, refs) == [i \in 1..Len(refs) |-> h[refs[i]]]

\* the heap after the dictionaries of refs were assigned the fields of recs
WriteAll(h, refs, recs) ==
    [o \in 1..Len(h) |->
        IF \E i \in 1..Len(refs) : refs[i] = o
        THEN recs[CHOOSE i \in 1..Len(refs) : refs[i] = o]
        ELSE h[o]]

ObjInit ==
    /\ rules = NoRules
    /\ Constructed
    /\ NoCall
    /\ NoObjects
    /\ NoProviders

\* one cache-miss pass of _get_all_channels over a scraping provider and the
\* caching provider.  The first scrapes k records; the second returns its
\* cached list if it has one, else scrapes m records and caches a non-empty
\* list.  The loop annotates every returned dictionary in place; the list is
\* filtered, deduplicated, sorted, stored and returned.
Recompute(k, m) ==
    LET reuse  == provider_cache # <<>>
        base   == Len(heap)
        xrefs  == [i \in 1..k |-> base + i]
        drefs  == IF reuse THEN provider_cache ELSE [i \in 1..m |-> base + k + i]
        heap1  == heap \o Scrape("x", k) \o Scrape("d", m)
        heap2  == WriteAll(heap1, xrefs, AnnotateAll(Deref(heap1, xrefs), "xumo", 1))
        heap3  == WriteAll(heap2, drefs,
                           AnnotateAll(Deref(heap2, drefs), "distrotv", 1 + k))
        all    == xrefs \o drefs
        tagged == [i \in 1..Len(all) |-> Put(heap3[all[i]], "obj", all[i])]
        out    == PostProcess(rules, tagged)
        refs   == [i \in 1..Len(out) |-> out[i].obj]
    IN  /\ reuse => m = 0
        /\ Len(heap1) <= MaxObjects
        /\ heap' = heap3
        /\ provider_cache' = IF m > 0 THEN drefs ELSE provider_cache
        /\ earlier' = <<held, held_seen>>
        /\ held' = refs
        /\ held_seen' = Deref(heap3, refs)
        /\ UNCHANGED <<rules, coreVars, fnVars, provVars>>

\* time passes beyond the provider's cache_expiry: the cached list is not
\* returned again (the next call scrapes and replaces it)
ProviderCacheExpires ==
    /\ provider_cache # <<>>
    /\ provider_cache' = <<>>
    /\ UNCHANGED <<rules, coreVars, fnVars, provVars, heap, held, held_seen, earlier>>

ObjNext ==
    \/ \E k \in 0..MaxScrape, m \in 0..MaxScrape : Recompute(k, m)
    \/ ProviderCacheExpires

ObjSpec == ObjInit /\ [][ObjNext]_vars

(***************************************************************************)
(* The providers' own state: the retry loop of XumoProvider._fetch_data,   *)
(* the token of PlexProvider and the channel cache of DistroTVProvider.    *)
(* A behaviour exercises one provider object (arg_kind names it).          *)
(***************************************************************************)
\* largest retries argument
MaxRetries == 3
\* last clock value
MaxClock == 4
\* PlexProvider: seconds a token is kept (6 * 3600), scaled
TokenLife == 2
\* tokens the Plex server hands out
MaxTokens == 3
\* DistroTVProvider.cache_duration (1800), scaled
DistroCacheDuration == 2

ProviderInit ==
    /\ rules = NoRules
    /\ Constructed
    /\ fn = "" /\ result = <<>>
    /\ arg_channels = <<>> /\ arg_results = <<>> /\ arg_raw = <<>>
    /\ arg_kind \in {"xumo", "plex", "distrotv"}
    /\ NoObjects
    /\ retries \in IF arg_kind = "xumo" THEN 0..MaxRetries ELSE {0}
    /\ attempt = 0
    /\ fetch_pc = IF arg_kind = "xumo" THEN "request" ELSE ""
    /\ fetch_result = ""
    /\ attempts = <<>> /\ slept = <<>>
    /\ NoProviderCalls

\* what no provider object touches
provFrame == <<rules, cache_lock, cacheVars, pc, localVars, returned, returned_epg,
               failed, obs, clean, prev_payload, cache_pre_clear, fnVars, objVars>>

\* what one requests.get + raise_for_status + response.json() can do
RequestOutcomes == {"json", "empty", "RequestException"}

LastAttemptNever(a, n) == FALSE

\* `if attempt == retries`
LastAttempt(a, n) == a = n

\* one iteration of `for attempt in range(retries + 1)` up to its return or
\* its sleep (lines 44-64)
FetchAttempt(outcome) ==
    /\ arg_kind = "xumo" /\ fetch_pc = "request"
    /\ attempts' = Append(attempts, outcome)
    /\ CASE outcome = "json" -> fetch_pc' = "returned" /\ fetch_result' = "json"
         [] outcome = "empty" -> fetch_pc' = "returned" /\ fetch_result' = "{}"
         [] outcome = "RequestException" ->
              IF LastAttempt(attempt, retries)
              THEN fetch_pc' = "returned" /\ fetch_result' = "{}"
              ELSE fetch_pc' = "sleep" /\ UNCHANGED fetch_result
    /\ UNCHANGED <<now, provFrame, retries, attempt, slept, plexVars, distroVars>>

\* time.sleep(2 ** attempt) and the next iteration, or the end of the loop
\* and the final `return {}` (lines 65-67)
FetchSleep ==
    /\ arg_kind = "xumo" /\ fetch_pc = "sleep"
    /\ slept' = Append(slept, 2 ^ attempt)
    /\ IF attempt + 1 < retries + 1
       THEN attempt' = attempt + 1 /\ fetch_pc' = "request" /\ UNCHANGED fetch_result
       ELSE fetch_pc' = "returned" /\ fetch_result' = "{}" /\ UNCHANGED attempt
    /\ UNCHANGED <<now, provFrame, retries, attempts, plexVars, distroVars>>

FetchStep == (\E outcome \in RequestOutcomes : FetchAttempt(outcome)) \/ FetchSleep

PlexTokenValidNoExpiry(token, expires_at, t) == token # 0

\* `if self.access_token and time.time() < self.token_expires_at`
PlexTokenValid(token, expires_at, t) == token # 0 /\ t < expires_at

\* PlexProvider.get_channels up to the token test (lines 109-115), with the
\* _get_access_token call it makes (lines 75-107)
PlexGetChannels(outcome, new_token) ==
    /\ arg_kind = "plex"
    /\ LET Out(requested, o, token) ==
               [called |-> TRUE, requested |-> requested, outcome |-> o,
                returned |-> token,
                channels |-> IF token = 0 THEN "[]" ELSE "fetch",
                at |-> now, held |-> access_token,
                held_expires_at |-> token_expires_at]
       IN  IF PlexTokenValid(access_token, token_expires_at, now)
           THEN /\ outcome = "token" /\ new_token = access_token
                /\ plex_out' = Out(FALSE, "none", access_token)
                /\ UNCHANGED <<access_token, token_expires_at>>
           ELSE CASE outcome = "raise" ->
                       /\ new_token = 0
                       /\ plex_out' = Out(TRUE, outcome, 0)
                       /\ UNCHANGED <<access_token, token_expires_at>>
                  [] outcome = "no_token" ->
                       /\ new_token = 0
                       /\ access_token' = 0
                       /\ plex_out' = Out(TRUE, outcome, 0)
                       /\ UNCHANGED token_expires_at
                  [] outcome = "token" ->
                       /\ new_token \notin {0, access_token}
                       /\ access_token' = new_token
                       /\ token_expires_at' = now + TokenLife
                       /\ plex_out' = Out(TRUE, outcome, new_token)
    /\ UNCHANGED <<now, provFrame, xumoVars, distroVars>>

\* `if time.time() < self.cache_expiry and self.channels_cache`
DistroCacheValid(cache, expiry, t) == t < expiry /\ cache # <<>>

ShouldCacheAlways(valid_channels) == TRUE

\* `if valid_channels:` (line 497)
ShouldCache(valid_channels) == valid_channels # <<>>

\* the validated lists a scrape can end with
ScrapedLists == {<<>>, <<"a">>, <<"b">>, <<"a", "b">>}

\* what _get_external_m3u_fallback hands back in the except clause
FallbackLists == {<<>>, <<"m">>}

\* DistroTVProvider.get_channels (lines 436-512): the cached list, or a scrape
\* that ends with a validated list (cached when not empty), or an exception,
\* after which the fallback list is returned
DistroGetChannels(outcome, channels) ==
    /\ arg_kind = "distrotv"
    /\ LET Out(scraped, o, list) ==
               [called |-> TRUE, scraped |-> scraped, outcome |-> o, returned |-> list,
                at |-> now, held |-> distro_channels_cache,
                held_expiry |-> distro_cache_expiry]
       IN  IF DistroCacheValid(distro_channels_cache, distro_cache_expiry, now)
           THEN /\ outcome = "cached" /\ channels = distro_channels_cache
                /\ distro_out' = Out(FALSE, outcome, distro_channels_cache)
                /\ UNCHANGED <<distro_channels_cache, distro_cache_expiry>>
           ELSE CASE outcome = "scraped" ->
                       /\ channels \in ScrapedLists
                       /\ IF ShouldCache(channels)
                          THEN /\ distro_channels_cache' = channels
                               /\ distro_cache_expiry' = now + DistroCacheDuration
                          ELSE UNCHANGED <<distro_channels_cache, distro_cache_expiry>>
                       /\ distro_out' = Out(TRUE, outcome, channels)
                  [] outcome = "raise" ->
                       /\ channels \in FallbackLists
                       /\ distro_out' = Out(TRUE, outcome, channels)
                       /\ UNCHANGED <<distro_channels_cache, distro_cache_expiry>>
                  [] outcome = "cached" -> FALSE
    /\ UNCHANGED <<now, provFrame, xumoVars, plexVars>>

\* time passes
ProviderTick ==
    /\ arg_kind \in {"plex", "distrotv"}
    /\ now < MaxClock
    /\ now' = now + 1
    /\ UNCHANGED <<provFrame, provVars>>

ProviderNext ==
    \/ \E outcome \in RequestOutcomes : FetchAttempt(outcome)
    \/ FetchSleep
    \/ \E outcome \in {"raise", "no_token", "token"}, new_token \in 0..MaxTokens :
           PlexGetChannels(outcome, new_token)
    \/ \E outcome \in {"cached", "scraped", "raise"},
          channels \in ScrapedLists \cup FallbackLists :
           DistroGetChannels(outcome, channels)
    \/ ProviderTick

\* the thread that runs _fetch_data keeps running: every request ends (it
\* has a timeout) and every sleep ends
ProviderSpec == ProviderInit /\ [][ProviderNext]_vars /\ WF_vars(FetchStep)

(***************************************************************************)
(* Properties of the direct calls.                                         *)
(***************************************************************************)
\* the key the deduplicator is specified to use: trimmed, lower-cased name
\* and the stream URL
NameUrlKey(channel) ==
    <<Lower(Strip(Get(channel, "name", <<>>))), Get(channel, "stream_url", <<>>)>>

\* the channel has a name (after trimming) and a stream URL
Keyed(channel) == NameUrlKey(channel)[1] # <<>> /\ NameUrlKey(channel)[2] # <<>>

\* out is made of elements of in, in the order they have in in
Embeds(out, in) ==
    \E f \in [1..Len(out) -> 1..Len(in)] :
        /\ \A j, k \in 1..Len(out) : j < k => f[j] < f[k]
        /\ \A j \in 1..Len(out) : out[j] = in[f[j]]

\* the elements of s at the positions of K, in order
AtPositions(s, K) ==
    LET F[i \in 0..Len(s)] ==
            IF i = 0 THEN <<>>
            ELSE IF i \in K THEN Append(F[i - 1], s[i]) ELSE F[i - 1]
    IN  F[Len(s)]

\* C11: _remove_duplicates keeps, for every key (trimmed lower-cased name,
\* stream_url) of the input, exactly one channel, the first one of the input
\* with that key, and the output is in input order.
C11_FirstSeenKept ==
    fn = "_remove_duplicates" =>
        /\ Embeds(result, arg_channels)
        /\ \A i \in 1..Len(arg_channels) :
             Keyed(arg_channels[i]) =>
               LET k == NameUrlKey(arg_channels[i])
                   first == CHOOSE m \in 1..i :
                                /\ NameUrlKey(arg_channels[m]) = k
                                /\ \A n \in 1..(m - 1) : NameUrlKey(arg_channels[n]) # k
               IN  /\ Cardinality({j \in 1..Len(result) : NameUrlKey(result[j]) = k}) = 1
                   /\ \A j \in 1..Len(result) :
                        NameUrlKey(result[j]) = k => result[j] = arg_channels[first]

\* 'HBO' and ' hbo' with the same stream_url were passed in, in some order,
\* with another channel, and the first of the two is what came back
C11_Witness ==
    /\ fn = "_remove_duplicates"
    /\ Len(result) >= 2
    /\ \E i, j \in 1..Len(arg_channels) :
         /\ i < j
         /\ arg_channels[i].name # arg_channels[j].name
         /\ NameUrlKey(arg_channels[i]) = NameUrlKey(arg_channels[j])
         /\ Keyed(arg_channels[i])
         /\ \E m \in 1..Len(result) : result[m] = arg_channels[i]

\* C12: a channel whose trimmed name or stream_url is empty is never put in
\* the set of seen keys, is never in the output of _remove_duplicates, and
\* never makes another channel be dropped.
C12_EmptyKeyDefence ==
    fn = "_remove_duplicates" =>
        /\ \A j \in 1..Len(result) : Keyed(result[j])
        /\ \A key \in SeenLoop(arg_channels, {}) : key[1] # <<>> /\ key[2] # <<>>
        /\ result = _remove_duplicates(
                        AtPositions(arg_channels,
                                    {i \in 1..Len(arg_channels) : Keyed(arg_channels[i])}))

\* a channel without a name and a channel without a stream URL came before
\* a channel that has both, which was kept
C12_Witness ==
    /\ fn = "_remove_duplicates"
    /\ \E i, j, m \in 1..Len(arg_channels) :
         /\ i < m /\ j < m
         /\ NameUrlKey(arg_channels[i])[1] = <<>>
         /\ NameUrlKey(arg_channels[j])[2] = <<>>
         /\ Keyed(arg_channels[m])
         /\ result = <<arg_channels[m]>>

\* provider p (by position) returned a channel with this name and stream URL
\* that the filter rules let through
Returned(p, name, url) ==
    /\ ~arg_results[p].raised
    /\ \E i \in 1..Len(arg_results[p].channels) :
         /\ arg_results[p].channels[i].name = name
         /\ arg_results[p].channels[i].stream_url = url
         /\ FilterOutcome(rules, arg_results[p].channels[i]) = ""

\* C13: when two providers each return a channel with the same name and the
\* same stream_url (and the filter rules let both through), the list
\* _get_all_channels returns holds exactly one channel with that name and
\* URL, tagged with the provider that comes first in iteration order.
C13_CrossSourceDuplicate ==
    fn = "_get_all_channels" =>
        \A p, q \in 1..Len(Providers) :
            \A c \in ProviderPool :
                (/\ p < q
                 /\ Returned(p, c.name, c.stream_url)
                 /\ Returned(q, c.name, c.stream_url)
                 /\ \A o \in 1..(p - 1) : ~Returned(o, c.name, c.stream_url))
                => LET same == {m \in 1..Len(result) :
                                   /\ result[m].name = c.name
                                   /\ result[m].stream_url = c.stream_url}
                   IN  /\ Cardinality(same) = 1
                       /\ \A m \in same : result[m].provider = Providers[p]

\* each of the two providers returned one channel named HBO with the same
\* stream URL; the call returned one channel, tagged with the first provider
C13_Witness ==
    /\ fn = "_get_all_channels"
    /\ \A p \in 1..Len(Providers) :
         /\ Len(arg_results[p].channels) = 1
         /\ Returned(p, HBO, <<"u">>)
    /\ Len(result) = 1
    /\ result[1].provider = Providers[1]

\* the pattern occurs in the text, letter case ignored
MatchesIgnoreCase(pattern, text) ==
    \E i \in 1..(Len(text) - Len(pattern) + 1) :
        SubSeq(Lower(text), i, i + Len(pattern) - 1) = Lower(pattern)

AllCompile(rs) ==
    \A f \in {"name_include", "name_exclude", "group_include", "group_exclude"} :
        Compiles(rs[f])

\* the predicate a channel has to satisfy to be emitted
Passes(rs, channel) ==
    LET name  == Get(channel, "name", <<>>)
        group == Get(channel, "group", <<>>)
    IN  /\ rs.name_include = <<>> \/ MatchesIgnoreCase(rs.name_include, name)
        /\ rs.name_exclude = <<>> \/ ~MatchesIgnoreCase(rs.name_exclude, name)
        /\ rs.group_include = <<>> \/ MatchesIgnoreCase(rs.group_include, group)
        /\ rs.group_exclude = <<>> \/ ~MatchesIgnoreCase(rs.group_exclude, group)

\* some rule whose pattern is not empty turns the channel down
TurnedDown(rs, channel) ==
    LET name  == Get(channel, "name", <<>>)
        group == Get(channel, "group", <<>>)
    IN  \/ rs.name_include # <<>> /\ ~MatchesIgnoreCase(rs.name_include, name)
        \/ rs.name_exclude # <<>> /\ MatchesIgnoreCase(rs.name_exclude, name)
        \/ rs.group_include # <<>> /\ ~MatchesIgnoreCase(rs.group_include, group)
        \/ rs.group_exclude # <<>> /\ MatchesIgnoreCase(rs.group_exclude, group)

\* C14: _apply_filters emits a channel if and only if (name_include is empty
\* or the name matches it) and (name_exclude is empty or the name does not
\* match it) and the same two conditions hold for the group, letter case
\* ignored.
C14_FilterPredicate ==
    (fn = "_apply_filters" /\ AllCompile(rules)) =>
        result = AtPositions(arg_channels,
                             {i \in 1..Len(arg_channels) : Passes(rules, arg_channels[i])})

\* a name rule and a group rule were set; some channels were emitted and
\* some were not
C14_Witness ==
    /\ fn = "_apply_filters"
    /\ rules.name_include # <<>> /\ rules.group_exclude # <<>>
    /\ result # <<>>
    /\ Len(result) < Len(arg_channels)
    /\ \E i \in 1..Len(arg_channels) :
         Passes([rules EXCEPT !.group_exclude = <<>>], arg_channels[i])
         /\ ~Passes(rules, arg_channels[i])

\* C15: a rule whose pattern is the empty string never removes a channel:
\* every channel that no rule with a non-empty pattern turns down is emitted,
\* and with all four patterns empty the output is the input.
C15_EmptyPatternNoConstraint ==
    fn = "_apply_filters" =>
        /\ Embeds(AtPositions(arg_channels,
                              {i \in 1..Len(arg_channels) :
                                  ~TurnedDown(rules, arg_channels[i])}),
                  result)
        /\ rules = NoRules => result = arg_channels

\* all four patterns are empty and the list, with a channel that has no
\* group, came back as it was
C15_Witness ==
    /\ fn = "_apply_filters"
    /\ rules = NoRules
    /\ Len(arg_channels) >= 2
    /\ \E i \in 1..Len(arg_channels) : ~Has(arg_channels[i], "group")
    /\ result = arg_channels

\* C16: the output of _apply_filters is a subsequence of its input; whether
\* a channel is emitted depends on the channel alone, so that filtering a
\* permutation of the input gives the same permutation of the output.
C16_OrderPreserved ==
    fn = "_apply_filters" =>
        LET n == Len(arg_channels)
            alone == {i \in 1..n :
                         _apply_filters(rules, <<arg_channels[i]>>) = <<arg_channels[i]>>}
        IN  /\ Embeds(result, arg_channels)
            /\ result = AtPositions(arg_channels, alone)
            /\ \A perm \in Permutations(1..n) :
                 LET permuted == [j \in 1..n |-> arg_channels[perm[j]]]
                 IN  _apply_filters(rules, permuted) =
                         AtPositions(permuted, {j \in 1..n : perm[j] \in alone})

\* two different channels were emitted and one between or around them was not
C16_Witness ==
    /\ fn = "_apply_filters"
    /\ Len(result) = 2
    /\ result[1] # result[2]
    /\ Len(arg_channels) = 3
    /\ rules # NoRules

\* the two channels have the same rank in the specified order: the same
\* channel_number, or none
SameRank(a, b) ==
    IF Has(a, "channel_number") /\ Has(b, "channel_number")
    THEN a.channel_number = b.channel_number
    ELSE ~Has(a, "channel_number") /\ ~Has(b, "channel_number")

\* a may stand before b: numbers ascending, a channel without a number after
\* every channel that has one
InOrder(a, b) ==
    /\ (Has(a, "channel_number") /\ Has(b, "channel_number"))
           => a.channel_number <= b.channel_number
    /\ ~Has(a, "channel_number") => ~Has(b, "channel_number")

Discovered ==
    LET F[i \in 0..Len(arg_results)] ==
            IF i = 0 THEN <<>>
            ELSE IF arg_results[i].raised THEN F[i - 1]
            ELSE F[i - 1] \o arg_results[i].channels
    IN  F[Len(arg_results)]

\* C18: for every channel of a provider that did not raise, channel_number is
\* the number the provider supplied when there is one; otherwise it is the
\* value of a counter that starts at 1 and advances by one with every channel
\* discovered, across all providers.
C18_NumberAssignment ==
    fn = "provider_loop" =>
        /\ Len(result) = Len(Discovered)
        /\ \A k \in 1..Len(result) :
             result[k].channel_number =
                 IF Has(Discovered[k], "number") THEN Discovered[k].number ELSE k

\* a channel of the second provider took its number from the counter, after
\* a channel whose own number differs from the counter
C18_Witness ==
    /\ fn = "provider_loop"
    /\ \E k, m \in 1..Len(result) :
         /\ m < k
         /\ Has(result[m], "number") /\ result[m].channel_number # m
         /\ ~Has(result[k], "number") /\ result[k].channel_number = k
         /\ result[k].provider = Providers[2]

\* C19: in the merged channel list no two channels carry the same
\* channel_number.
C19_NoDuplicateNumbers ==
    fn = "_get_all_channels" =>
        \A i, j \in 1..Len(result) :
            i # j => result[i].channel_number # result[j].channel_number

\* C19 as amended: numbers are not rewritten; a channel with a provider-
\* supplied number keeps it, and the numbers taken from the counter are
\* pairwise different.
C19_CounterNumbersDistinct ==
    fn = "_get_all_channels" =>
        /\ \A i \in 1..Len(result) :
             Has(result[i], "number") => result[i].channel_number = result[i].number
        /\ \A i, j \in 1..Len(result) :
             (i # j /\ ~Has(result[i], "number") /\ ~Has(result[j], "number"))
                 => result[i].channel_number # result[j].channel_number

\* a provider-supplied number equals a number taken from the counter, and
\* two channels took theirs from the counter
C19_Witness ==
    /\ fn = "_get_all_channels"
    /\ \E i, j, k \in 1..Len(result) :
         /\ Has(result[i], "number") /\ ~Has(result[j], "number")
         /\ result[i].channel_number = result[j].channel_number
         /\ k # j /\ ~Has(result[k], "number")

\* C20: when two providers both report entries for a channel_id, the merged
\* guide table holds for it the entries of the first followed by the entries
\* of the second.
C20_GuideConcatenated ==
    \A r \in Requests :
        (pc[r] = "epg_return" /\ obs[r].outcome = "miss" /\ failed[r] = {}) =>
            \A first \in GuideTables(Providers[1]), second \in GuideTables(Providers[2]) :
                \A channel_id \in DOMAIN first \cap DOMAIN second :
                    /\ Has(returned_epg[r], channel_id)
                    /\ returned_epg[r][channel_id] = first[channel_id] \o second[channel_id]

\* ---------------------------------------------------------------------
\* Normalizer, guide entries and the name cleaner (direct calls)
\* ---------------------------------------------------------------------

\* a field that is absent, or empty once surrounding whitespace is removed
TrimmedEmpty(record, field) == ~Has(record, field) \/ Strip(record[field]) = <<>>

\* the raw records of a list none of whose required fields is TrimmedEmpty
Acceptable(raws) ==
    {i \in 1..Len(raws) : \A field \in RequiredFields : ~TrimmedEmpty(raws[i], field)}

\* C21: every guide entry a provider hands to the merge has a non-empty title,
\* start and stop, and its start is before its stop
C21_GuideEntryTimeWindow ==
    fn = "validate_normalize_programme" =>
        \A i \in 1..Len(result) :
            /\ \A field \in RequiredProgrammeFields : ~TrimmedEmpty(result[i], field)
            /\ DigitsToInt(result[i].start) < DigitsToInt(result[i].stop)

\* C22: raw channels with a required field absent or empty after trimming yield
\* no record, so at most the acceptable raw records yield one
C22_NormalizerRejection ==
    fn = "validate_normalize" => Len(result) <= Cardinality(Acceptable(arg_raw))

\* the group (language) the defaults rule prescribes for a raw record
ExpectedOptional(raw, field, default) ==
    IF Falsy(raw, field) THEN default ELSE Strip(raw[field])

\* C23: every normalized channel has a group and a language: the default when
\* the raw record has none or an empty one, else the trimmed supplied value
C23_NormalizerDefaults ==
    (fn = "validate_normalize" /\ Len(arg_raw) = 1 /\ Len(result) = 1) =>
        /\ Has(result[1], "group")
        /\ Has(result[1], "language")
        /\ result[1].group
             = ExpectedOptional(arg_raw[1], "group", <<"G", "e", "n", "e", "r", "a", "l">>)
        /\ result[1].language = ExpectedOptional(arg_raw[1], "language", <<"e", "n">>)

\* C24: a number that does not parse as an integer is left out of the
\* normalized channel, and the rest of the record is still normalized
C24_UnparsableNumberOmitted ==
    (fn = "validate_normalize" /\ Len(arg_raw) = 1 /\ Len(result) = 1
        /\ IntOutcome(arg_raw[1]) \notin {"int", "None"}) =>
        /\ DOMAIN result[1] \cap {"number", "number_text", "number_inf"} = {}
        /\ result[1].name = Strip(arg_raw[1].name)
        /\ result[1].stream_url = Strip(arg_raw[1].stream_url)

\* C28: the cleaned name is the input without its leading whitespace, its
\* leading run of digits and the whitespace after it, and it is trimmed
C28_LeadingNumberRemoved ==
    fn = "clean_tvg_name_value" => result = Strip(DropDigits(LStrip(arg_raw)))

\* C27: every endpoint handler returns a rendered (possibly empty) output,
\* whatever fails below it
C27_AlwaysRenders ==
    fn \in Handlers => result.status = 200 /\ result.body = "rendered"

\* C30: the constructed aggregator holds only patterns that compile, and no
\* request fails on a pattern
C30_PatternsValidated ==
    /\ AllCompile(rules)
    /\ \A r \in Requests : pc[r] # "ch_raised"

\* the concatenated records as the provider loop annotated them
Annotated == ProviderLoop(arg_results, 1, <<>>, 1)

Unannotated(channel) == Without(channel, {"provider", "channel_number"})

PositionIn(s, x) == CHOOSE i \in 1..Len(s) : s[i] = x

\* positions of the records that pass the filter and are the first passing
\* record of their key
Survivors(rs, all) ==
    LET P == {i \in 1..Len(all) : Passes(rs, all[i])}
    IN  {i \in P : /\ Keyed(all[i])
                   /\ \A j \in P : j < i => NameUrlKey(all[j]) # NameUrlKey(all[i])}

\* C29: the returned list is the concatenation in provider order, filtered,
\* then reduced to the first record of every key among those that passed, then
\* put in ascending channel_number order with ties in discovery order
C29_PipelineOrder ==
    fn = "_get_all_channels" =>
        LET all == Annotated
            sv  == AtPositions(all, Survivors(rules, all))
        IN  /\ [i \in 1..Len(all) |-> Unannotated(all[i])] = Discovered
            /\ Len(result) = Len(sv)
            /\ \A j \in 1..Len(sv) : \E k \in 1..Len(result) : result[k] = sv[j]
            /\ \A j, k \in 1..Len(result) :
                   j < k =>
                     /\ result[j].channel_number <= result[k].channel_number
                     /\ result[j].channel_number = result[k].channel_number
                            => PositionIn(sv, result[j]) < PositionIn(sv, result[k])

\* a record removed by the filter is followed by a duplicate that passes, and
\* the duplicate is returned
C29_Witness ==
    /\ fn = "_get_all_channels"
    /\ \E i, j \in 1..Len(Annotated) :
           /\ i < j
           /\ NameUrlKey(Annotated[i]) = NameUrlKey(Annotated[j])
           /\ ~Passes(rules, Annotated[i])
           /\ Passes(rules, Annotated[j])
           /\ \E k \in 1..Len(result) : result[k] = Annotated[j]

\* C26: every step that changes the channel store, the guide store or the
\* expiry table is taken by a thread that holds the cache lock while it
\* writes: it held the lock before the step, or the lock was free and the
\* step took it
C26_LockDiscipline ==
    [][cacheVars' # cacheVars =>
         \E r \in Requests :
             /\ pc'[r] # pc[r]
             /\ \/ cache_lock = r
                \/ cache_lock = Unlocked /\ cache_lock' = r]_vars

\* a thread has written the channel store under the lock while another
\* thread waits to store its own result
C26_Witness ==
    \E r, q \in Requests :
        /\ r # q
        /\ cache_lock = r
        /\ pc[r] = "ch_store2"
        /\ Has(channels_cache, "all_channels")
        /\ pc[q] \in {"ch_store", "epg_store"}

InsideLock == {"ch_store2", "epg_store2", "cl_epg", "cl_expiry"}

\* C31: the lock is held exactly inside the locked blocks, so never while a
\* provider is called and never after a call returned; its holder can always
\* take its next step, and so can every thread that waits to store and finds
\* the lock free (no interleaving deadlocks); and while a request is fetching
\* and the lock is free, any idle thread can enter a cache read or clear_cache
C31_LockNotHeldWhileFetching ==
    /\ \A r \in Requests : cache_lock = r <=> pc[r] \in InsideLock
    /\ \A r \in Requests :
           pc[r] \in InsideLock =>
               ENABLED (ChStore2(r) \/ EpgStore2(r) \/ ClEpg(r) \/ ClExpiry(r))
    /\ \A r \in Requests :
           (pc[r] \in {"ch_store", "epg_store"} /\ cache_lock = Unlocked)
               => ENABLED (ChStore1(r) \/ EpgStore1(r))
    /\ \A r, q \in Requests :
           (pc[r] \in {"ch_fetch", "epg_fetch"} /\ pc[q] \in Ready) =>
               /\ cache_lock \in {Unlocked, q}
               /\ cache_lock = Unlocked =>
                      ENABLED ChCheck(q) /\ ENABLED EpgCheck(q) /\ ENABLED ClChannels(q)

\* one request is in the middle of its provider loop while another thread
\* is inside clear_cache with the lock
C31_Witness ==
    \E r, q \in Requests :
        /\ pc[r] = "ch_fetch" /\ idx[r] > 1
        /\ pc[q] = "cl_expiry"
        /\ cache_lock = q

\* the expiry stored for a key, if any
ExpiryOf(expiry, cache_key) ==
    IF Has(expiry, cache_key) THEN <<expiry[cache_key]>> ELSE <<>>

\* thread r takes a step of the named operation
StepOf(r, operation) ==
    CASE operation = "_get_all_channels" ->
             pc[r] \in {"ch_fetch", "ch_store", "ch_store2"}
                 \/ pc'[r] \in {"ch_fetch", "ch_return", "ch_raised"}
      [] operation = "_get_all_epg_data" ->
             pc[r] \in {"epg_fetch", "epg_store", "epg_store2"}
                 \/ pc'[r] \in {"epg_fetch", "epg_return", "epg_raised"}
      [] operation = "clear_cache" ->
             pc[r] \in {"cl_epg", "cl_expiry"} \/ pc'[r] = "cl_epg"

Moved(r) ==
    <<pc[r], idx[r], returned[r], returned_epg[r]>>
        # <<pc'[r], idx'[r], returned'[r], returned_epg'[r]>>

\* C32: a step of _get_all_channels leaves the guide store and the 'all_epg'
\* expiry as they were, a step of _get_all_epg_data leaves the channel store
\* and the 'all_channels' expiry as they were, and only a step of clear_cache
\* removes an entry; the stores never hold another key
C32_KeyIndependence ==
    [][/\ \A r \in Requests :
            /\ (Moved(r) /\ StepOf(r, "_get_all_channels")) =>
                   /\ epg_cache' = epg_cache
                   /\ ExpiryOf(cache_expiry', "all_epg") = ExpiryOf(cache_expiry, "all_epg")
            /\ (Moved(r) /\ StepOf(r, "_get_all_epg_data")) =>
                   /\ channels_cache' = channels_cache
                   /\ ExpiryOf(cache_expiry', "all_channels")
                          = ExpiryOf(cache_expiry, "all_channels")
            /\ (Moved(r) /\ ~StepOf(r, "clear_cache")) =>
                   /\ DOMAIN channels_cache \subseteq DOMAIN channels_cache'
                   /\ DOMAIN epg_cache \subseteq DOMAIN epg_cache'
                   /\ DOMAIN cache_expiry \subseteq DOMAIN cache_expiry'
       /\ DOMAIN channels_cache' \subseteq {"all_channels"}
       /\ DOMAIN epg_cache' \subseteq {"all_epg"}
       /\ DOMAIN cache_expiry' \subseteq {"all_channels", "all_epg"}]_vars

\* a channel recomputation has stored its result while the guide entry and
\* its expiry are in the cache
C32_Witness ==
    \E r \in Requests :
        /\ pc[r] = "ch_return" /\ obs[r].outcome = "miss"
        /\ Has(epg_cache, "all_epg")
        /\ Has(cache_expiry, "all_epg")
        /\ Has(cache_expiry, "all_channels")

\* C33: a pass that reaches its store leaves its own result in the cache
\* under an expiry of store time + cache_duration, the empty list of a pass
\* in which every provider failed included; and a caller whose pass stored
\* the empty list is served it again from the cache, with no provider call,
\* while the expiry is ahead and nothing was stored or cleared in between
C33_EveryPassStores ==
    [][\A r \in Requests :
        /\ (pc[r] = "ch_store2" /\ pc'[r] = "ch_return") =>
               /\ Has(channels_cache', "all_channels")
               /\ channels_cache'["all_channels"] = all_channels[r]
               /\ AllFailed(r) => channels_cache'["all_channels"] = <<>>
               /\ ExpiryOf(cache_expiry', "all_channels") = <<now + CacheDuration>>
        /\ (pc[r] = "epg_store2" /\ pc'[r] = "epg_return") =>
               /\ Has(epg_cache', "all_epg")
               /\ epg_cache'["all_epg"] = all_epg_data[r]
               /\ ExpiryOf(cache_expiry', "all_epg") = <<now + CacheDuration>>
        /\ (/\ pc[r] = "ch_return" /\ obs[r].outcome = "miss" /\ AllFailed(r)
            /\ clean[r]
            /\ _is_cache_valid(cache_expiry, "all_channels", now)
            /\ pc'[r] \in {"ch_return", "ch_fetch", "ch_raised"}
            /\ Moved(r) \/ obs'[r] # obs[r])
           => (pc'[r] = "ch_return" /\ returned'[r] = <<>> /\ obs'[r].outcome = "hit")]_vars

\* a pass in which every provider failed has just stored the empty list over
\* an earlier entry that held channels
C33_Witness ==
    \E r \in Requests :
        /\ pc[r] = "ch_return" /\ obs[r].outcome = "miss"
        /\ AllFailed(r)
        /\ obs[r].had_prev /\ prev_payload[r] # <<>>
        /\ Has(channels_cache, "all_channels")
        /\ channels_cache["all_channels"] = <<>>
        /\ _is_cache_valid(cache_expiry, "all_channels", now)

\* C34: no pass stores its result over the stored result of a pass whose
\* provider fetch started after its own
C34_NoRegress ==
    \A r \in Requests : ~obs[r].regressed

\* C39: the compressed guide endpoint answers with a success status only
\* when the guide was rendered, and with an error status when the guide
\* generation failed
C39_CompressedGuideFaithful ==
    fn = "get_epg_xml_gz" =>
        /\ result.status = 200 => result.body = "rendered"
        /\ FilterRaises(rules, Annotated) => result.status # 200

\* ---------------------------------------------------------------------
\* The providers' own state
\* ---------------------------------------------------------------------

\* C35: _fetch_data makes at most retries + 1 requests, every request before
\* the last one made failed, it sleeps 2^attempt seconds after every failed
\* attempt but the last, it returns the decoded answer of a successful
\* request and the empty mapping otherwise, and it always returns
C35_FetchRetry ==
    /\ [](arg_kind = "xumo" =>
            /\ Len(attempts) <= retries + 1
            /\ \A i \in 1..(Len(attempts) - 1) : attempts[i] = "RequestException"
            /\ slept = [i \in 1..Len(slept) |-> 2 ^ (i - 1)]
            /\ fetch_pc = "request" => Len(slept) = Len(attempts)
            /\ fetch_pc = "returned" =>
                   /\ Len(attempts) >= 1
                   /\ Len(slept) = Len(attempts) - 1
                   /\ fetch_result =
                          IF attempts[Len(attempts)] = "json" THEN "json" ELSE "{}"
                   /\ attempts[Len(attempts)] = "RequestException"
                          => Len(attempts) = retries + 1)
    /\ (arg_kind = "xumo" => <>(fetch_pc = "returned"))

\* the default call: three requests failed, sleeps of 1 and 2 seconds, {}
C35_Witness ==
    /\ arg_kind = "xumo" /\ retries = 2
    /\ fetch_pc = "returned" /\ fetch_result = "{}"
    /\ attempts = <<"RequestException", "RequestException", "RequestException">>
    /\ slept = <<1, 2>>

\* C36: the held token is returned without a request exactly when it is not
\* empty and the call comes before token_expires_at; otherwise a token is
\* requested, and a request that fails or yields no token gives the empty
\* string and an empty channel list, never the token held before
C36_TokenExpiry ==
    plex_out.called =>
        /\ ~plex_out.requested <=>
               (plex_out.held # 0 /\ plex_out.at < plex_out.held_expires_at)
        /\ ~plex_out.requested => plex_out.returned = plex_out.held
        /\ plex_out.requested =>
               /\ plex_out.returned = 0 \/ plex_out.returned # plex_out.held
               /\ plex_out.outcome \in {"raise", "no_token"} => plex_out.returned = 0
               /\ plex_out.returned # 0 =>
                      /\ access_token = plex_out.returned
                      /\ token_expires_at = plex_out.at + TokenLife
        /\ plex_out.channels = "[]" <=> plex_out.returned = 0

\* the token expired, the request for a new one failed: the call gave the
\* empty string although the expired token is still held
C36_Witness ==
    /\ plex_out.called /\ plex_out.requested /\ plex_out.outcome = "raise"
    /\ plex_out.held # 0 /\ plex_out.at >= plex_out.held_expires_at
    /\ access_token = plex_out.held
    /\ plex_out.returned = 0 /\ plex_out.channels = "[]"

\* C37: the cached list is returned without scraping exactly when it is not
\* empty and the call comes before cache_expiry; the cache and its expiry
\* change only when a scrape ends with a non-empty validated list, which
\* becomes the cache with expiry call time + cache_duration
C37_ProviderCache ==
    distro_out.called =>
        /\ ~distro_out.scraped <=>
               (distro_out.held # <<>> /\ distro_out.at < distro_out.held_expiry)
        /\ ~distro_out.scraped => distro_out.returned = distro_out.held
        /\ (distro_out.scraped /\ distro_out.outcome = "scraped"
                /\ distro_out.returned # <<>>) =>
               /\ distro_channels_cache = distro_out.returned
               /\ distro_cache_expiry = distro_out.at + DistroCacheDuration
        /\ ~(distro_out.scraped /\ distro_out.outcome = "scraped"
                /\ distro_out.returned # <<>>) =>
               /\ distro_channels_cache = distro_out.held
               /\ distro_cache_expiry = distro_out.held_expiry

\* the cache expired and the scrape found nothing: the old list and expiry
\* are still there
C37_Witness ==
    /\ distro_out.called /\ distro_out.scraped /\ distro_out.outcome = "scraped"
    /\ distro_out.returned = <<>>
    /\ distro_out.held # <<>> /\ distro_out.at >= distro_out.held_expiry
    /\ distro_channels_cache = distro_out.held
    /\ distro_cache_expiry = distro_out.held_expiry

\* C38: a provider is registered exactly when it was imported, is enabled
\* and its constructor did not raise; in particular a provider whose own
\* module loads is registered whatever happens to the other modules
C38_RegistrationIsolation ==
    fn = "_init_providers" =>
        \A module \in Range(ImportStatements) :
            \A name \in Range(ProvidedBy(module)) :
                name \in Range(result) <=>
                    /\ module \notin arg_raw.broken
                    /\ Enabled(name, arg_raw.enabled_providers)
                    /\ name \notin arg_raw.ctor_raises

====
